---- MODULE Spec2Model ----
(***************************************************************************)
(* Emotion-timeline reconciliation and outcome classification              *)
(* (src/api/extractor.py).                                                 *)
(*                                                                         *)
(* Units.  Times are integers in thousandths of a second, so that          *)
(* round(t, 2) is a real operation (Round2).  Emotion scores are integers  *)
(* in hundred-thousandths, confidences are integers in hundredths.  Free   *)
(* text is a tuple of one-character strings, so that lower(), strip() and  *)
(* the substring test `keyword in text` are computed as Python does.       *)
(* Short enumerated strings (speakers, labels, outcomes) are TLA+ strings; *)
(* their lower()/strip() is given by a table over the values drawn.        *)
(***************************************************************************)
EXTENDS Integers, Sequences, FiniteSets, TLC

VARIABLES
    pc,          \* position in analyze_audio_files
    predictions, \* predictions_data as get_predictions returned it
    results,     \* the per-file results list (prosody / burst / metadata)
    transcript,  \* transcript_segments handed to the aligner
    client,      \* whether an OpenAI client is available ("absent"/"present")
    response,    \* what the classification service did when it was called
    judgment,    \* value returned by determine_overall_call_emotion
    llmCalls,    \* number of requests made to the classification service
    raised,      \* TRUE when an exception left determine_overall_call_emotion
    call,        \* the row of the calls table for one call_id, or NoCall
    tasks,       \* the background analyses started for the call, in start order
    reply,       \* the last request served by api_server and what it answered
    topN         \* the top_n argument extract_top_emotions is called with

\* the state of one run of analyze_audio_files
analysisVars == <<pc, predictions, results, transcript, client, response, judgment, llmCalls, raised>>
\* the state of the API server for one call
serverVars == <<call, tasks, reply>>

vars == <<pc, predictions, results, transcript, client, response, judgment, llmCalls, raised,
          call, tasks, reply, topN>>

\* Python's None (or a missing key) for a string-valued field.
None == "None"
\* Python's None (or a value float() rejects) for a time field; times are >= 0.
NoTime == -1
\* A time_end key that is missing from the segment dict.
AbsentTime == -2
\* Python's None (or a missing key) for a free-text field.
NoText == <<"None">>

\* No row in the calls table for the call_id.
NoCall == [exists |-> FALSE]
\* No request has been served yet.
NoReply == [op |-> "none"]
\* The API server before any request, with the call not yet registered.
ServerIdle ==
    /\ call = NoCall
    /\ tasks = <<>>
    /\ reply = NoReply

----------------------------------------------------------------------------
\* Generic sequence helpers

Min(a, b) == IF a <= b THEN a ELSE b
Max(a, b) == IF a >= b THEN a ELSE b

RECURSIVE SeqsUpTo(_, _)
SeqsUpTo(S, n) ==
    IF n = 0 THEN {<<>>}
    ELSE LET shorter == SeqsUpTo(S, n - 1)
         IN shorter \cup {Append(q, e) : q \in {r \in shorter : Len(r) = n - 1}, e \in S}

----------------------------------------------------------------------------
\* Text: tuples of characters

UpperChars == <<"A","B","C","D","E","F","G","H","I","J","K","L","M","N","O","P","Q","R","S","T","U","V","W","X","Y","Z">>
LowerChars == <<"a","b","c","d","e","f","g","h","i","j","k","l","m","n","o","p","q","r","s","t","u","v","w","x","y","z">>

\* str.lower() on one character
LowerChar(c) ==
    IF \E i \in DOMAIN UpperChars : UpperChars[i] = c
    THEN LowerChars[CHOOSE i \in DOMAIN UpperChars : UpperChars[i] = c]
    ELSE c

\* str.lower()
TextLower(t) == [i \in DOMAIN t |-> LowerChar(t[i])]

\* str.strip(): drop leading and trailing blanks
RECURSIVE TextLStrip(_)
TextLStrip(t) == IF t # <<>> /\ Head(t) = " " THEN TextLStrip(Tail(t)) ELSE t

RECURSIVE TextRStrip(_)
TextRStrip(t) ==
    IF t # <<>> /\ t[Len(t)] = " " THEN TextRStrip(SubSeq(t, 1, Len(t) - 1)) ELSE t

TextStrip(t) == TextRStrip(TextLStrip(t))

\* Python's `kw in t` for strings: kw occurs as a contiguous substring of t
TextContains(t, kw) ==
    \E i \in 1..(Len(t) - Len(kw) + 1) : SubSeq(t, i, i + Len(kw) - 1) = kw

\* The texts segments are drawn from
TextEmpty == <<>>  \* (empty)
TextAccept == <<"o", "k", " ", "s", "e", "n", "d", " ", "i", "t">>  \* ok_send_it
TextDeferral == <<"c", "a", "l", "l", " ", "m", "e", " ", "b", "a", "c", "k", " ", "l", "a", "t", "e", "r">>  \* call_me_back_later
TextDeferralUpper == <<"N", "o", "t", " ", "A", " ", "G", "o", "o", "d", " ", "T", "i", "m", "e">>  \* Not_A_Good_Time
TextInsideWord == <<"c", "o", "l", "l", "a", "t", "e", "r", "a", "l">>  \* collateral
TextRefusal == <<"n", "o">>  \* no
TextPadded == <<" ", "b", "u", "s", "y", " ">>  \* _busy_
TextBlank == <<" ", " ">>  \* __

\* deferral_keywords of determine_overall_call_emotion: call back, later,
\* another time, not a good time, busy, can't talk, cannot talk, next time,
\* maybe later
deferral_keywords ==
    { <<"c", "a", "l", "l", " ", "b", "a", "c", "k">>,
      <<"l", "a", "t", "e", "r">>,
      <<"a", "n", "o", "t", "h", "e", "r", " ", "t", "i", "m", "e">>,
      <<"n", "o", "t", " ", "a", " ", "g", "o", "o", "d", " ", "t", "i", "m", "e">>,
      <<"b", "u", "s", "y">>,
      <<"c", "a", "n", "'", "t", " ", "t", "a", "l", "k">>,
      <<"c", "a", "n", "n", "o", "t", " ", "t", "a", "l", "k">>,
      <<"n", "e", "x", "t", " ", "t", "i", "m", "e">>,
      <<"m", "a", "y", "b", "e", " ", "l", "a", "t", "e", "r">> }

----------------------------------------------------------------------------
\* Scalars

\* round(t, 2) on a time in thousandths: the nearest hundredth.  The times
\* the model draws never lie exactly half-way between two hundredths.
Round2(t) == ((t + 5) \div 10) * 10

\* emotion_categories.DEFAULT_EMOTION_CATEGORY
DEFAULT_EMOTION_CATEGORY == "neutral"

Categories == {"positive", "neutral", "negative"}
CallOutcomes == {"success", "pending", "unsuccessful"}

\* str(value).strip().lower() on the short strings the model draws
StrStripLower(s) ==
    CASE s = " Positive " -> "positive"
      [] s = "NEGATIVE" -> "negative"
      [] s = "Neutral" -> "neutral"
      [] s = " Success" -> "success"
      [] s = "PENDING" -> "pending"
      [] OTHER -> s

\* str(value).lower() on the speaker names the model draws
StrLower(s) ==
    CASE s = "Customer" -> "customer"
      [] s = "Agent" -> "agent"
      [] s = "User" -> "user"
      [] s = "CALLER" -> "caller"
      [] s = "Unknown" -> "unknown"
      [] OTHER -> s

\* Python truthiness of an optional short string / optional text
StrTruthy(s) == s # None /\ s # ""
TextTruthy(t) == t # NoText /\ t # <<>>

\* _normalize_sentiment_category
normalize_sentiment_category(value) ==
    IF ~StrTruthy(value) THEN DEFAULT_EMOTION_CATEGORY
    ELSE LET normalized == StrStripLower(value)
         IN IF normalized \in {"positive", "neutral", "negative"}
            THEN normalized
            ELSE DEFAULT_EMOTION_CATEGORY

\* sorted()/list.sort() are stable: the position of element i of keys in
\* the sorted list is 1 + the number of elements that go before it.
SortRank(keys, i) ==
    1 + Cardinality({j \in DOMAIN keys :
                        keys[j] < keys[i] \/ (keys[j] = keys[i] /\ j < i)})

\* Faulty variant of StableSort: the list is left in the order it has
StableSortKeepOrder(seq, keys) == seq

\* seq sorted ascending (stably) by the integer keys, keys[i] the key of seq[i]
StableSort(seq, keys) ==
    [r \in DOMAIN seq |-> seq[CHOOSE i \in DOMAIN seq : SortRank(keys, i) = r]]

RECURSIVE Concat(_)
Concat(seqs) == IF seqs = <<>> THEN <<>> ELSE Head(seqs) \o Concat(Tail(seqs))


----------------------------------------------------------------------------
\* extract_top_emotions
\*
\* predictions_data is a list of per-file items; an item holds a list of
\* predictions (preds); a prediction holds, per model kind, a list of groups
\* (grouped_predictions); a group is a list of windows.  A window is
\* [begin, end, text, emotions], emotions a list of [name, score].

\* "No judgment": determine_overall_call_emotion's None, and a metadata block
\* without the overall_call_emotion key.
NoJudgment == [label |-> None, call_outcome |-> None, confidence |-> 0, source |-> None]

\* A segment without the _transcript_index key
NoIndex == 0

\* Number of top emotions kept per segment (the default of top_n)
top_n == 1

\* round(score, 4) on a score in hundred-thousandths.  The scores the model
\* draws never lie exactly half-way.
Round4(score) == ((score + 5) \div 10) * 10

\* round(score * 100, 1), in tenths of a percent
Percentage(score) == (score + 50) \div 100

\* emotion_categories.EMOTION_CATEGORIES, on the names the model draws
EMOTION_CATEGORIES ==
    [name \in {"joy", "anger", "calmness"} |->
        CASE name = "joy" -> "positive"
          [] name = "anger" -> "negative"
          [] OTHER -> "neutral"]

\* emotion_name.lower() on the emotion names the model draws
NameLower(name) ==
    CASE name = "Joy" -> "joy"
      [] name = "Anger" -> "anger"
      [] name = "ANGER" -> "anger"
      [] name = "Calmness" -> "calmness"
      [] name = "JOY" -> "joy"
      [] name = "Zest" -> "zest"
      [] OTHER -> name

\* Faulty variant of categorize_emotion: the name is looked up as it is written
categorize_emotionCaseSensitive(emotion_name) ==
    IF ~StrTruthy(emotion_name) THEN DEFAULT_EMOTION_CATEGORY
    ELSE IF emotion_name \in DOMAIN EMOTION_CATEGORIES
         THEN EMOTION_CATEGORIES[emotion_name]
         ELSE DEFAULT_EMOTION_CATEGORY

\* categorize_emotion
categorize_emotion(emotion_name) ==
    IF ~StrTruthy(emotion_name) THEN DEFAULT_EMOTION_CATEGORY
    ELSE IF NameLower(emotion_name) \in DOMAIN EMOTION_CATEGORIES
         THEN EMOTION_CATEGORIES[NameLower(emotion_name)]
         ELSE DEFAULT_EMOTION_CATEGORY

\* file_result["metadata"] as extract_top_emotions creates it, with the keys
\* later stages add still missing
NewMetadata ==
    [ speaker |-> None,
      overall_call_emotion |-> NoJudgment,
      category_counts |-> [c \in {"positive", "neutral", "negative"} |-> 0],
      retell_transcript_available |-> FALSE ]

\* An emotion score that is not a number (a string, null); scores are >= 0
NonNumeric == -1

\* time_info.get("begin", 0): a missing time reads as 0
WindowTime(t) == IF t = AbsentTime THEN 0 ELSE t

\* Faulty variant of EnrichedTopEmotions: the first n emotions are kept in the
\* order the window lists them
EnrichedTopEmotionsUnranked(emotions, n) ==
    LET kept == SubSeq(emotions, 1, Min(n, Len(emotions)))
    IN [i \in DOMAIN kept |->
          [ name       |-> kept[i].name,
            score      |-> Round4(kept[i].score),
            percentage |-> Percentage(kept[i].score),
            category   |-> categorize_emotion(kept[i].name) ]]

\* sorted(emotions, key=score, reverse=True)[:n], then the enriched entries
EnrichedTopEmotions(emotions, n) ==
    LET ranked == StableSort(emotions, [i \in DOMAIN emotions |-> 0 - emotions[i].score])
        kept == SubSeq(ranked, 1, Min(n, Len(ranked)))
    IN [i \in DOMAIN kept |->
          [ name       |-> kept[i].name,
            score      |-> Round4(kept[i].score),
            percentage |-> Percentage(kept[i].score),
            category   |-> categorize_emotion(kept[i].name) ]]

\* The segment appended for one window
WindowSegment(window, kind, n) ==
    LET enriched_top_emotions == EnrichedTopEmotions(window.emotions, n)
    IN [ time_start       |-> Round2(WindowTime(window.begin)),
         time_end         |-> Round2(WindowTime(window.end)),
         text             |-> IF kind = "prosody" /\ TextTruthy(window.text)
                              THEN TextStrip(window.text) ELSE NoText,
         speaker          |-> None,
         transcript_text  |-> NoText,
         primary_category |-> IF enriched_top_emotions # <<>>
                              THEN enriched_top_emotions[1].category
                              ELSE DEFAULT_EMOTION_CATEGORY,
         top_emotions     |-> enriched_top_emotions,
         source           |-> kind,
         transcript_index |-> NoIndex ]

\* (rounded_start, rounded_end)
TimeRangeKey(window) ==
    <<Round2(WindowTime(window.begin)), Round2(WindowTime(window.end))>>

\* The prosody segments one prediction contributes: windows in group order;
\* a window whose rounded time range was already seen in this prediction is
\* skipped (the range is recorded before the emotions are looked at); a
\* window without emotions adds no segment.
ProsodySegments(pred, n) ==
    LET windows == Concat(pred.prosody)
        first == {i \in DOMAIN windows :
                    \A j \in 1..(i - 1) : TimeRangeKey(windows[j]) # TimeRangeKey(windows[i])}
        emit(i) == i \in first /\ windows[i].emotions # <<>>
        F[i \in 0..Len(windows)] ==
            IF i = 0 THEN <<>>
            ELSE IF emit(i) THEN Append(F[i - 1], WindowSegment(windows[i], "prosody", n))
            ELSE F[i - 1]
    IN F[Len(windows)]

\* The burst segments one prediction contributes: every window with emotions
BurstSegments(pred, n) ==
    LET windows == SelectSeq(Concat(pred.burst), LAMBDA w : w.emotions # <<>>)
    IN [i \in DOMAIN windows |-> WindowSegment(windows[i], "burst", n)]

\* category_counts over the segments appended for one file
CountCategories(segments) ==
    [c \in {"positive", "neutral", "negative"} |->
        Cardinality({i \in DOMAIN segments : segments[i].primary_category = c})]

\* sorted(emotions, key=score) compares the scores of a list of two or more
\* and round(score, 4) rounds the kept ones: a window with emotions raises
\* TypeError when one of the scores compared or rounded is not a number
\* (with top_n = 1 and a single emotion, that one is the kept one)
WindowRaises(window) ==
    \E i \in DOMAIN window.emotions : window.emotions[i].score = NonNumeric

\* The windows of one prediction whose emotions are looked at: for prosody
\* the first window of each rounded time range, for burst every window
ProsodyWindowsReached(pred) ==
    LET windows == Concat(pred.prosody)
    IN {windows[i] : i \in {i \in DOMAIN windows :
            \A j \in 1..(i - 1) : TimeRangeKey(windows[j]) # TimeRangeKey(windows[i])}}

BurstWindowsReached(pred) ==
    LET windows == Concat(pred.burst)
    IN {windows[i] : i \in DOMAIN windows}

\* extract_top_emotions raises: some window it reaches raises
ExtractRaises(predictions_data) ==
    \E k \in DOMAIN predictions_data : \E p \in DOMAIN predictions_data[k].preds :
        LET pred == predictions_data[k].preds[p]
        IN \E window \in ProsodyWindowsReached(pred) \cup BurstWindowsReached(pred) :
              WindowRaises(window)

\* file_result for one item
FileResult(item, n) ==
    LET prosody == Concat([p \in DOMAIN item.preds |-> ProsodySegments(item.preds[p], n)])
        burst == Concat([p \in DOMAIN item.preds |-> BurstSegments(item.preds[p], n)])
    IN [ prosody  |-> prosody,
         burst    |-> burst,
         metadata |-> [NewMetadata EXCEPT !.category_counts = CountCategories(prosody \o burst)] ]

\* extract_top_emotions: one result per item that has predictions
extract_top_emotions(predictions_data, n) ==
    LET items == SelectSeq(predictions_data, LAMBDA item : item.preds # <<>>)
    IN [k \in DOMAIN items |-> FileResult(items[k], n)]

----------------------------------------------------------------------------
\* enrich_results_with_transcript
\*
\* A transcript segment (utterance) is [speaker, start, end, text].

\* Faulty variant of Overlap: the ranges are taken as closed on a grid of
\* thousandths, so that ranges that only touch overlap by one
OverlapTouching(start, end, segment) ==
    Max(0, Min(end, segment.end) - Max(start, segment.start) + 1)

\* overlap between [start, end] and the utterance's range
Overlap(start, end, segment) ==
    Max(0, Min(end, segment.end) - Max(start, segment.start))

\* Faulty variant of find_best_transcript_match: an overlap equal to the best so
\* far replaces it, so that the last of several equal overlaps wins
find_best_transcript_matchLastTie(start, end, transcript_segments) ==
    LET F[i \in 0..Len(transcript_segments)] ==
            IF i = 0 THEN [best_overlap |-> 0, best_segment |-> 0]
            ELSE LET overlap == Overlap(start, end, transcript_segments[i])
                 IN IF overlap > 0 /\ overlap >= F[i - 1].best_overlap
                    THEN [best_overlap |-> overlap, best_segment |-> i]
                    ELSE F[i - 1]
    IN F[Len(transcript_segments)].best_segment

\* _find_best_transcript_match: the position of best_segment in
\* transcript_segments, 0 when it stays None
find_best_transcript_match(start, end, transcript_segments) ==
    LET F[i \in 0..Len(transcript_segments)] ==
            IF i = 0 THEN [best_overlap |-> 0, best_segment |-> 0]
            ELSE LET overlap == Overlap(start, end, transcript_segments[i])
                 IN IF overlap > F[i - 1].best_overlap
                    THEN [best_overlap |-> overlap, best_segment |-> i]
                    ELSE F[i - 1]
    IN F[Len(transcript_segments)].best_segment

\* Faulty variant of ListIndex: the position is counted from the end of the list
ListIndexFromEnd(list, value) ==
    Len(list) + 1 - (CHOOSE i \in DOMAIN list :
                        list[i] = value /\ \A j \in 1..(i - 1) : list[j] # value)

\* list.index(value): the first position holding an equal element
ListIndex(list, value) ==
    CHOOSE i \in DOMAIN list : list[i] = value /\ \A j \in 1..(i - 1) : list[j] # value

\* Faulty variant of MatchProsodySegment: a window without recognized text of
\* its own is not indexed
MatchProsodySegmentOwnText(prosody_segment, transcript_segments) ==
    LET matched == find_best_transcript_match(prosody_segment.time_start,
                                              prosody_segment.time_end,
                                              transcript_segments)
        matched_segment == transcript_segments[matched]
    IN IF matched = 0 THEN prosody_segment
       ELSE IF ~TextTruthy(matched_segment.text) \/ ~TextTruthy(prosody_segment.text)
       THEN [prosody_segment EXCEPT !.speaker = matched_segment.speaker]
       ELSE [prosody_segment EXCEPT
                !.speaker = matched_segment.speaker,
                !.transcript_text = matched_segment.text,
                !.text = matched_segment.text,
                !.time_start = Round2(matched_segment.start),
                !.time_end = Round2(matched_segment.end),
                !.transcript_index = ListIndex(transcript_segments, matched_segment)]

\* First pass, one prosody segment: speaker from the match; text, times and
\* _transcript_index as well when the matched utterance has text
MatchProsodySegment(prosody_segment, transcript_segments) ==
    LET matched == find_best_transcript_match(prosody_segment.time_start,
                                              prosody_segment.time_end,
                                              transcript_segments)
        matched_segment == transcript_segments[matched]
    IN IF matched = 0 THEN prosody_segment
       ELSE IF ~TextTruthy(matched_segment.text)
       THEN [prosody_segment EXCEPT !.speaker = matched_segment.speaker]
       ELSE [prosody_segment EXCEPT
                !.speaker = matched_segment.speaker,
                !.transcript_text = matched_segment.text,
                !.text = matched_segment.text,
                !.time_start = Round2(matched_segment.start),
                !.time_end = Round2(matched_segment.end),
                !.transcript_index = ListIndex(transcript_segments, matched_segment)]

\* Second pass: a segment is grouped when it has a _transcript_index and a
\* text that is not blank
SegmentGrouped(prosody_segment) ==
    LET segment_text ==
            IF TextTruthy(prosody_segment.text) THEN prosody_segment.text
            ELSE prosody_segment.transcript_text
    IN /\ prosody_segment.transcript_index # NoIndex
       /\ TextTruthy(segment_text)
       /\ TextStrip(segment_text) # <<>>

\* The score max() compares: the first top emotion's, 0 without top emotions
TopScore(segment) ==
    IF segment.top_emotions # <<>> THEN segment.top_emotions[1].score ELSE 0

\* Faulty variant of BestOfGroup: the first segment of the group is taken
BestOfGroupFirst(segments) == segments[1]

\* max(segments, key=top score): the first segment with the highest score
BestOfGroup(segments) ==
    segments[CHOOSE i \in DOMAIN segments :
                /\ \A j \in DOMAIN segments : TopScore(segments[j]) <= TopScore(segments[i])
                /\ \A j \in 1..(i - 1) : TopScore(segments[j]) < TopScore(segments[i])]

\* Third pass, one group: the best segment takes the utterance's time range,
\* speaker and text and loses _transcript_index
AnchorToTranscript(best_segment, matched_transcript) ==
    [best_segment EXCEPT
        !.time_start = Round2(matched_transcript.start),
        !.time_end = Round2(matched_transcript.end),
        !.speaker = IF StrTruthy(matched_transcript.speaker)
                    THEN matched_transcript.speaker ELSE best_segment.speaker,
        !.transcript_text = IF TextTruthy(matched_transcript.text)
                            THEN matched_transcript.text ELSE best_segment.transcript_text,
        !.text = IF TextTruthy(matched_transcript.text)
                 THEN matched_transcript.text ELSE best_segment.transcript_text,
        !.transcript_index = NoIndex]

\* Faulty variant of TranscriptGroups: a window is a group of its own
TranscriptGroupsPerWindow(matched_segments) ==
    LET grouped == SelectSeq(matched_segments, SegmentGrouped)
    IN [g \in DOMAIN grouped |-> [transcript_index |-> grouped[g].transcript_index,
                                  segments |-> <<grouped[g]>>]]

\* transcript_groups, in the order sorted(transcript_groups.items()) visits
\* them: [transcript_index, segments], ascending by transcript_index, the
\* segments of a group in list order
TranscriptGroups(matched_segments) ==
    LET grouped == SelectSeq(matched_segments, SegmentGrouped)
        indices == {grouped[i].transcript_index : i \in DOMAIN grouped}
        nth(g) == CHOOSE x \in indices : Cardinality({y \in indices : y < x}) = g - 1
    IN [g \in 1..Cardinality(indices) |->
          [ transcript_index |-> nth(g),
            segments |-> SelectSeq(grouped, LAMBDA seg : seg.transcript_index = nth(g)) ]]

\* Faulty variant of EnrichProsody: the segments without a match are kept, as
\* they are for the burst list
EnrichProsodyKeepUnmatched(prosody_segments, transcript_segments) ==
    LET matched_segments ==
            [i \in DOMAIN prosody_segments |->
                MatchProsodySegment(prosody_segments[i], transcript_segments)]
        groups == TranscriptGroups(matched_segments)
        enriched_prosody ==
            [g \in DOMAIN groups |->
                AnchorToTranscript(BestOfGroup(groups[g].segments),
                                   transcript_segments[groups[g].transcript_index])]
            \o SelectSeq(matched_segments, LAMBDA seg : seg.speaker = None)
    IN StableSort(enriched_prosody,
                  [i \in DOMAIN enriched_prosody |-> enriched_prosody[i].time_start])

\* The three passes and the sort: the new prosody list of one result
EnrichProsody(prosody_segments, transcript_segments) ==
    LET matched_segments ==
            [i \in DOMAIN prosody_segments |->
                MatchProsodySegment(prosody_segments[i], transcript_segments)]
        groups == TranscriptGroups(matched_segments)
        enriched_prosody ==
            [g \in DOMAIN groups |->
                AnchorToTranscript(BestOfGroup(groups[g].segments),
                                   transcript_segments[groups[g].transcript_index])]
    IN StableSort(enriched_prosody,
                  [i \in DOMAIN enriched_prosody |-> enriched_prosody[i].time_start])

\* Faulty variant of EnrichBurstSegment: the burst takes the utterance's time
\* range, as a prosody segment does
EnrichBurstSegmentAnchored(burst_segment, transcript_segments) ==
    LET matched == find_best_transcript_match(burst_segment.time_start,
                                              burst_segment.time_end,
                                              transcript_segments)
        matched_segment == transcript_segments[matched]
    IN IF matched = 0 THEN burst_segment
       ELSE IF ~TextTruthy(matched_segment.text)
       THEN [burst_segment EXCEPT !.speaker = matched_segment.speaker]
       ELSE [burst_segment EXCEPT
                !.speaker = matched_segment.speaker,
                !.transcript_text = matched_segment.text,
                !.time_start = Round2(matched_segment.start),
                !.time_end = Round2(matched_segment.end)]

\* One burst segment: speaker, and transcript_text when the utterance has
\* text; its times are kept
EnrichBurstSegment(burst_segment, transcript_segments) ==
    LET matched == find_best_transcript_match(burst_segment.time_start,
                                              burst_segment.time_end,
                                              transcript_segments)
        matched_segment == transcript_segments[matched]
    IN IF matched = 0 THEN burst_segment
       ELSE IF ~TextTruthy(matched_segment.text)
       THEN [burst_segment EXCEPT !.speaker = matched_segment.speaker]
       ELSE [burst_segment EXCEPT
                !.speaker = matched_segment.speaker,
                !.transcript_text = matched_segment.text]

\* enrich_results_with_transcript
enrich_results_with_transcript(res, transcript_segments) ==
    IF transcript_segments = <<>> THEN res
    ELSE [k \in DOMAIN res |->
            [ prosody  |-> EnrichProsody(res[k].prosody, transcript_segments),
              burst    |-> [i \in DOMAIN res[k].burst |->
                              EnrichBurstSegment(res[k].burst[i], transcript_segments)],
              metadata |-> [res[k].metadata EXCEPT !.retell_transcript_available = TRUE] ]]

----------------------------------------------------------------------------
\* determine_overall_call_emotion

\* segment.get("time_end", time_start)
SegmentTimeEnd(segment) ==
    IF segment.time_end = AbsentTime THEN segment.time_start ELSE segment.time_end

\* Faulty variant of SegmentUsable: only time_start is tested
SegmentUsableStartOnly(segment) == segment.time_start # NoTime

\* A prosody segment enters the timeline unless a time is None or not a number
SegmentUsable(segment) ==
    segment.time_start # NoTime /\ SegmentTimeEnd(segment) # NoTime

\* segment.get("primary_category"), else the first top emotion's category
SegmentRawCategory(segment) ==
    IF ~StrTruthy(segment.primary_category) /\ segment.top_emotions # <<>>
    THEN segment.top_emotions[1].category
    ELSE segment.primary_category

\* segment.get("speaker") or metadata.get("speaker") or "Unknown"
SegmentSpeaker(segment, metadata) ==
    IF StrTruthy(segment.speaker) THEN segment.speaker
    ELSE IF StrTruthy(metadata.speaker) THEN metadata.speaker
    ELSE "Unknown"

\* (segment.get("text") or segment.get("transcript_text") or "").strip()
SegmentText(segment) ==
    TextStrip(IF TextTruthy(segment.text) THEN segment.text
              ELSE IF TextTruthy(segment.transcript_text) THEN segment.transcript_text
              ELSE <<>>)

\* One timeline_segments entry
TimelineEntry(segment, metadata) ==
    [ start    |-> Round2(segment.time_start),
      end      |-> Round2(SegmentTimeEnd(segment)),
      speaker  |-> SegmentSpeaker(segment, metadata),
      category |-> normalize_sentiment_category(SegmentRawCategory(segment)),
      text     |-> SegmentText(segment) ]

\* The entries one result contributes, in order
ResultEntries(result) ==
    LET usable == SelectSeq(result.prosody, SegmentUsable)
    IN [i \in DOMAIN usable |-> TimelineEntry(usable[i], result.metadata)]

\* timeline_segments after the loop over results and the sort by start
BuildTimeline(res) ==
    LET unsorted == Concat([k \in DOMAIN res |-> ResultEntries(res[k])])
    IN StableSort(unsorted, [i \in DOMAIN unsorted |-> unsorted[i].start])

\* The speakers that count as the customer
CustomerSpeakers == {"customer", "user", "caller"}

\* Faulty variant of FinalCustomerSegment: the timeline is searched from its
\* start, so that the first customer-labelled segment is taken
FinalCustomerSegmentFirst(timeline) ==
    LET customer == {i \in DOMAIN timeline :
                        StrLower(timeline[i].speaker) \in CustomerSpeakers}
    IN IF customer # {}
       THEN timeline[CHOOSE i \in customer : \A j \in customer : i <= j]
       ELSE timeline[Len(timeline)]

\* next(reversed customer-labelled segments, default the last segment);
\* timeline is non-empty
FinalCustomerSegment(timeline) ==
    LET customer == {i \in DOMAIN timeline :
                        StrLower(timeline[i].speaker) \in CustomerSpeakers}
    IN IF customer # {}
       THEN timeline[CHOOSE i \in customer : \A j \in customer : j <= i]
       ELSE timeline[Len(timeline)]

\* any(keyword in final_text for keyword in deferral_keywords)
HasDeferralKeyword(final_text) ==
    \E keyword \in deferral_keywords : TextContains(final_text, keyword)

\* Faulty variant of OutcomeOfLabel: the negative entry is missing from outcome_map
OutcomeOfLabelNoNegative(label) ==
    CASE label = "positive" -> "success"
      [] label = "neutral" -> "pending"
      [] OTHER -> "pending"

\* outcome_map.get(label, "pending")
OutcomeOfLabel(label) ==
    CASE label = "positive" -> "success"
      [] label = "neutral" -> "pending"
      [] label = "negative" -> "unsuccessful"
      [] OTHER -> "pending"

\* Faulty variant of FallbackJudgment: the text is not lower-cased before the
\* keyword test
FallbackJudgmentCaseSensitive(final_customer) ==
    LET category == normalize_sentiment_category(final_customer.category)
        deferral == HasDeferralKeyword(final_customer.text)
        fallback_label ==
            IF deferral
            THEN (IF category # "negative" THEN "neutral" ELSE "negative")
            ELSE category
    IN [ label        |-> fallback_label,
         call_outcome |-> IF deferral THEN "pending" ELSE OutcomeOfLabel(fallback_label),
         confidence   |-> IF fallback_label = "positive" THEN 60 ELSE 50,
         source       |-> "fallback" ]

\* Faulty variant of FallbackJudgment: a deferral keyword always makes the label
\* neutral
FallbackJudgmentNeutralOnDeferral(final_customer) ==
    LET category == normalize_sentiment_category(final_customer.category)
        deferral == HasDeferralKeyword(TextLower(final_customer.text))
        fallback_label == IF deferral THEN "neutral" ELSE category
    IN [ label        |-> fallback_label,
         call_outcome |-> IF deferral THEN "pending" ELSE OutcomeOfLabel(fallback_label),
         confidence   |-> IF fallback_label = "positive" THEN 60 ELSE 50,
         source       |-> "fallback" ]

\* The deterministic path: fallback_result
FallbackJudgment(final_customer) ==
    LET category == normalize_sentiment_category(final_customer.category)
        final_text == TextLower(final_customer.text)
        deferral == HasDeferralKeyword(final_text)
        fallback_label ==
            IF deferral
            THEN (IF category # "negative" THEN "neutral" ELSE "negative")
            ELSE category
        fallback_outcome ==
            IF deferral THEN "pending" ELSE OutcomeOfLabel(fallback_label)
    IN [ label        |-> fallback_label,
         call_outcome |-> fallback_outcome,
         confidence   |-> IF fallback_label = "positive" THEN 60 ELSE 50,
         source       |-> "fallback" ]


\* What the classification service does with one request.
\*   raises            chat.completions.create raises (network, API error)
\*   no_content        the message content is None, so .strip() raises
\*   unparsable        text that is not JSON and holds no {...} that parses
\*   json_null         the text "null": json.loads gives None
\*   json_list         a non-empty JSON list (or scalar): parsed, not a dict
\*   json_empty_object the text "{}"
\*   json_object       a non-empty JSON object, parsed directly
\*   embedded_object   prose around a non-empty JSON object, found by the
\*                     regular expression after the direct parse failed
\* obj holds the keys the code reads; None is a missing key (the object may
\* hold other keys).  confidence is [kind, val]: absent, nonnumeric (float()
\* raises ValueError/TypeError), overflow (float() raises OverflowError) or
\* number with val in hundredths.
EmptyObject ==
    [ overall_emotion |-> None, call_outcome |-> None,
      confidence |-> [kind |-> "absent", val |-> 0] ]

\* json.loads(content), then the regular-expression retry: the parsed value
ParseContent(resp) ==
    CASE resp.kind \in {"json_object", "embedded_object"} ->
            [type |-> "dict", truthy |-> TRUE, obj |-> resp.obj]
      [] resp.kind = "json_empty_object" ->
            [type |-> "dict", truthy |-> FALSE, obj |-> EmptyObject]
      [] resp.kind = "json_list" ->
            [type |-> "list", truthy |-> TRUE, obj |-> EmptyObject]
      [] OTHER ->
            [type |-> "none", truthy |-> FALSE, obj |-> EmptyObject]

\* call_outcome_value
ParsedCallOutcome(obj, label_value) ==
    LET call_outcome_value ==
            IF StrTruthy(obj.call_outcome) THEN StrStripLower(obj.call_outcome) ELSE ""
    IN IF call_outcome_value \notin {"success", "pending", "unsuccessful"}
       THEN (CASE label_value = "positive" -> "success"
               [] label_value = "negative" -> "unsuccessful"
               [] OTHER -> "pending")
       ELSE call_outcome_value

\* confidence_value if confidence_value is not None else 0.75
ParsedConfidence(obj) ==
    IF obj.confidence.kind = "number" THEN obj.confidence.val ELSE 75

\* The body of the try block: the exception it raises ("none" if it does
\* not), and whether it reached `return overall_result`, with that result.
TryClassify(resp) ==
    LET parsed == ParseContent(resp)
        label_value == normalize_sentiment_category(parsed.obj.overall_emotion)
        overall_result ==
            [ label        |-> label_value,
              call_outcome |-> ParsedCallOutcome(parsed.obj, label_value),
              confidence   |-> ParsedConfidence(parsed.obj),
              source       |-> "openai" ]
        NoReturn(exc) == [exc |-> exc, returned |-> FALSE, result |-> NoJudgment]
    IN CASE resp.kind = "raises" -> NoReturn("APIError")
         [] resp.kind = "no_content" -> NoReturn("AttributeError")
         [] ~parsed.truthy -> NoReturn("none")
         [] parsed.type # "dict" -> NoReturn("AttributeError")
         [] parsed.obj.confidence.kind = "overflow" -> NoReturn("OverflowError")
         [] label_value \in {"positive", "neutral", "negative"} ->
                [exc |-> "none", returned |-> TRUE, result |-> overall_result]
         [] OTHER -> NoReturn("none")

\* Faulty variant of CaughtByExcept: only the attribute and conversion errors of the
\* parsing code are caught, not the service's own error
CaughtByExceptParsingOnly(exc) == exc \in {"AttributeError", "OverflowError"}

\* `except Exception`: every exception the try block can raise is caught
CaughtByExcept(exc) == exc \in {"APIError", "AttributeError", "OverflowError"}

\* determine_overall_call_emotion from the non-empty timeline on.
\* called: whether the service is asked; resp: what it then does.
\* Gives the returned judgment and whether an exception escaped.
ClassifyTimeline(timeline, called, resp) ==
    LET attempt == TryClassify(resp)
        fallback == FallbackJudgment(FinalCustomerSegment(timeline))
    IN IF called /\ attempt.returned
       THEN [judgment |-> attempt.result, raised |-> FALSE]
       ELSE IF called /\ attempt.exc # "none" /\ ~CaughtByExcept(attempt.exc)
       THEN [judgment |-> NoJudgment, raised |-> TRUE]
       ELSE [judgment |-> fallback, raised |-> FALSE]


----------------------------------------------------------------------------
\* Inputs of the outcome classifier

\* Most prosody segments in one result's list
MaxSegments == 2

\* A prosody segment as the classifier may meet it
OutcomeSegment(time_start, time_end, speaker, primary_category, top_emotions, text, transcript_text) ==
    [ time_start |-> time_start, time_end |-> time_end, speaker |-> speaker,
      primary_category |-> primary_category, top_emotions |-> top_emotions,
      text |-> text, transcript_text |-> transcript_text,
      source |-> "prosody", transcript_index |-> NoIndex ]

OutcomeTop(name, category) ==
    [name |-> name, score |-> 80000, percentage |-> 800, category |-> category]

OutcomeTexts ==
    {TextEmpty, TextAccept, TextDeferral, TextDeferralUpper, TextInsideWord, TextPadded}

\* The segments the last position of a list is drawn from
OutcomeSegments ==
    { OutcomeSegment(1004, 2504, sp, cat, <<OutcomeTop("Joy", cat)>>, txt, txt) :
        sp \in {None, "Customer", "Agent"}, cat \in Categories, txt \in OutcomeTexts }
    \cup
    { OutcomeSegment(NoTime, NoTime, "Customer", "negative", <<>>, TextDeferral, NoText),
      OutcomeSegment(NoTime, AbsentTime, None, "positive", <<>>, NoText, NoText),
      OutcomeSegment(1004, AbsentTime, "CALLER", None, <<OutcomeTop("Anger", "NEGATIVE")>>, NoText, TextDeferral),
      OutcomeSegment(1004, NoTime, "Customer", "positive", <<>>, TextAccept, NoText),
      OutcomeSegment(1004, 2000, "Customer", None, <<>>, TextPadded, NoText),
      OutcomeSegment(1004, 2000, "Customer", "sad", <<OutcomeTop("Joy", "positive")>>, NoText, NoText),
      OutcomeSegment(1004, 2000, "Customer", " Positive ", <<>>, NoText, TextAccept) }

\* The segments the earlier positions of a list are drawn from
OutcomePrefixSegments ==
    { OutcomeSegment(2996, 4000, "Customer", "negative", <<>>, TextDeferral, NoText),
      OutcomeSegment(496, 900, "Agent", "positive", <<>>, TextAccept, NoText),
      OutcomeSegment(1000, 2000, "User", "neutral", <<>>, TextRefusal, NoText),
      OutcomeSegment(NoTime, 2000, "Customer", "positive", <<>>, TextAccept, NoText) }

Result(prosody, burst, speaker) ==
    [ prosody |-> prosody, burst |-> burst,
      metadata |-> [NewMetadata EXCEPT !.speaker = speaker] ]

OutcomeResults ==
    { <<>>, <<Result(<<>>, <<>>, None)>> }
    \cup
    { <<Result(Append(prefix, last), <<>>, None)>> :
        prefix \in SeqsUpTo(OutcomePrefixSegments, MaxSegments - 1),
        last \in OutcomeSegments }
    \cup
    { <<Result(<<[p EXCEPT !.speaker = None]>>, <<>>, "Customer"),
        Result(<<[q EXCEPT !.speaker = None]>>, <<>>, "Agent")>> :
        p \in OutcomePrefixSegments, q \in OutcomePrefixSegments }

NotCalled == [kind |-> "not_called", obj |-> EmptyObject]

NoConfidence == [kind |-> "absent", val |-> 0]

\* The three keys are read independently of each other: the objects vary
\* overall_emotion with call_outcome, and overall_emotion with confidence
ClassifierObjects ==
    { [overall_emotion |-> e, call_outcome |-> o, confidence |-> NoConfidence] :
        e \in {None, "neutral", " Positive ", "NEGATIVE", "angry"},
        o \in {None, "PENDING", " Success", "failed"} }
    \cup
    { [overall_emotion |-> e, call_outcome |-> None, confidence |-> c] :
        e \in {None, "neutral", " Positive ", "NEGATIVE", "angry"},
        c \in { [kind |-> "nonnumeric", val |-> 0], [kind |-> "overflow", val |-> 0],
                [kind |-> "number", val |-> 90], [kind |-> "number", val |-> 150],
                [kind |-> "number", val |-> -20] } }

ClassifierResponses ==
    { [kind |-> k, obj |-> EmptyObject] :
        k \in {"raises", "no_content", "unparsable", "json_null", "json_list",
               "json_empty_object"} }
    \cup { [kind |-> "json_object", obj |-> obj] : obj \in ClassifierObjects }
    \cup { [kind |-> "embedded_object", obj |-> obj] :
             obj \in {x \in ClassifierObjects : x.call_outcome = "PENDING"} }

----------------------------------------------------------------------------
\* analyze_audio_files, from the call of determine_overall_call_emotion on

InitOutcome ==
    /\ pc = "determine"
    /\ predictions = <<>>
    /\ results \in OutcomeResults
    /\ transcript = <<>>
    /\ client \in {"absent", "present"}
    /\ response = NotCalled
    /\ judgment = NoJudgment
    /\ llmCalls = 0
    /\ raised = FALSE
    /\ ServerIdle
    /\ topN = top_n

\* overall_emotion = determine_overall_call_emotion(results, summary)
DetermineOverall ==
    /\ pc = "determine"
    /\ LET timeline == BuildTimeline(results)
       IN IF results = <<>> \/ timeline = <<>>
          THEN /\ judgment' = NoJudgment
               /\ raised' = FALSE
               /\ UNCHANGED <<response, llmCalls>>
          ELSE IF client = "absent"
          THEN LET returned == ClassifyTimeline(timeline, FALSE, NotCalled)
               IN /\ judgment' = returned.judgment
                  /\ raised' = returned.raised
                  /\ UNCHANGED <<response, llmCalls>>
          ELSE \E resp \in ClassifierResponses :
               LET returned == ClassifyTimeline(timeline, TRUE, resp)
               IN /\ response' = resp
                  /\ llmCalls' = llmCalls + 1
                  /\ judgment' = returned.judgment
                  /\ raised' = returned.raised
    /\ pc' = IF raised' THEN "raised" ELSE "determined"
    /\ UNCHANGED <<predictions, results, transcript, client>>
    /\ UNCHANGED serverVars
    /\ UNCHANGED topN

\* if overall_emotion: attach it to every result's metadata; return results
AttachOverall ==
    /\ pc = "determined"
    /\ results' =
          IF judgment # NoJudgment
          THEN [k \in DOMAIN results |->
                  [results[k] EXCEPT !.metadata.overall_call_emotion = judgment]]
          ELSE results
    /\ pc' = "done"
    /\ UNCHANGED <<predictions, transcript, client, response, judgment, llmCalls, raised>>
    /\ UNCHANGED serverVars
    /\ UNCHANGED topN

NextOutcome == DetermineOverall \/ AttachOverall

SpecOutcome == InitOutcome /\ [][NextOutcome]_vars


----------------------------------------------------------------------------
\* Inputs of the aligner

\* Most prosody windows in the prediction stream
MaxWindows == 2
\* Most utterances in the transcript
MaxUtterances == 2

Emotion(name, score) == [name |-> name, score |-> score]

Window(begin, end, text, emotions) ==
    [begin |-> begin, end |-> end, text |-> text, emotions |-> emotions]

Utterance(speaker, start, end, text) ==
    [speaker |-> speaker, start |-> start, end |-> end, text |-> text]

ProsodyWindows ==
    { Window(0, 4000, TextAccept, <<Emotion("Joy", 60000)>>),
      Window(1000, 5000, NoText, <<Emotion("ANGER", 80004)>>),
      Window(1001, 4999, TextRefusal, <<Emotion("Joy", 60000)>>),
      Window(3004, 6996, TextPadded, <<Emotion("Calmness", 60000), Emotion("Joy", 70000)>>),
      Window(7000, 8000, TextAccept, <<Emotion("Zest", 90000)>>) }

BurstWindows ==
    { Window(2000, 3000, NoText, <<Emotion("Joy", 50000)>>) }

Utterances ==
    { Utterance("Customer", 504, 3496, TextDeferral),
      Utterance("Agent", 3500, 6000, TextAccept),
      Utterance("Agent", 504, 3496, TextEmpty),
      Utterance("Customer", 2000, 5000, TextBlank),
      Utterance("Agent", 0, 1000, TextRefusal) }

\* One file with one prediction holding one group per model kind
OneFile(prosody_windows, burst_windows) ==
    <<[preds |-> <<[prosody |-> <<prosody_windows>>, burst |-> <<burst_windows>>]>>]>>

----------------------------------------------------------------------------
\* analyze_audio_files, from extract_top_emotions to the enriched results

InitAlign ==
    /\ pc = "extract"
    /\ predictions \in { OneFile(ws, bs) : ws \in SeqsUpTo(ProsodyWindows, MaxWindows),
                                            bs \in SeqsUpTo(BurstWindows, 1) }
    /\ results = <<>>
    /\ transcript \in SeqsUpTo(Utterances, MaxUtterances)
    /\ client = "absent"
    /\ response = NotCalled
    /\ judgment = NoJudgment
    /\ llmCalls = 0
    /\ raised = FALSE
    /\ ServerIdle
    /\ topN = top_n

\* results = extract_top_emotions(predictions_data); an exception it raises
\* leaves analyze_audio_files
ExtractTopEmotions ==
    /\ pc = "extract"
    /\ IF ExtractRaises(predictions)
       THEN /\ raised' = TRUE
            /\ pc' = "raised"
            /\ UNCHANGED results
       ELSE /\ results' = extract_top_emotions(predictions, top_n)
            /\ pc' = "enrich"
            /\ UNCHANGED raised
    /\ UNCHANGED <<predictions, transcript, client, response, judgment, llmCalls>>
    /\ UNCHANGED serverVars
    /\ UNCHANGED topN

\* Faulty variant of EnrichWithTranscript: the three passes run without the test for
\* a transcript
EnrichWithTranscriptUnguarded ==
    /\ pc = "enrich"
    /\ results' = [k \in DOMAIN results |->
                     [ prosody  |-> EnrichProsody(results[k].prosody, transcript),
                       burst    |-> [i \in DOMAIN results[k].burst |->
                                       EnrichBurstSegment(results[k].burst[i], transcript)],
                       metadata |-> [results[k].metadata EXCEPT
                                        !.retell_transcript_available = TRUE] ]]
    /\ pc' = "determine"
    /\ UNCHANGED <<predictions, transcript, client, response, judgment, llmCalls, raised>>
    /\ UNCHANGED serverVars
    /\ UNCHANGED topN

\* if transcript_segments: results = enrich_results_with_transcript(...)
EnrichWithTranscript ==
    /\ pc = "enrich"
    /\ results' = IF transcript # <<>>
                  THEN enrich_results_with_transcript(results, transcript)
                  ELSE results
    /\ pc' = "determine"
    /\ UNCHANGED <<predictions, transcript, client, response, judgment, llmCalls, raised>>
    /\ UNCHANGED serverVars
    /\ UNCHANGED topN

NextAlign == ExtractTopEmotions \/ EnrichWithTranscript

SpecAlign == InitAlign /\ [][NextAlign]_vars

----------------------------------------------------------------------------
\* Inputs of extract_top_emotions: the shapes a prediction stream can take

\* The emotion names drawn: known ones in three letter cases, an unknown one,
\* the empty string and null
ExtractNames == {"Joy", "joy", "JOY", "Zest", "", None}

ExtractWindows ==
    { Window(1000, 5000, TextAccept, <<Emotion(name, 60000)>>) : name \in ExtractNames }
    \cup
    { \* the rounded range of the windows above, another ranking
      Window(1001, 4999, NoText, <<Emotion("ANGER", 80004), Emotion("Joy", 70000)>>),
      \* the same range, no emotions
      Window(1000, 5000, NoText, <<>>),
      \* an earlier range
      Window(0, 4000, TextPadded, <<Emotion("Calmness", 60000), Emotion("Joy", 70000)>>),
      \* no time range
      Window(AbsentTime, AbsentTime, TextAccept, <<Emotion("Joy", 50000)>>),
      \* a score that is not a number
      Window(2000, 6000, NoText, <<Emotion("Joy", NonNumeric)>>) }

Prediction(prosody_groups, burst_groups) ==
    [prosody |-> prosody_groups, burst |-> burst_groups]

File(preds) == [preds |-> preds]

\* One file whose windows ws lie in one group, in a group each, or in a
\* prediction each, as prosody, as burst or as both; and three files, the
\* middle one without predictions
ExtractInputs ==
    LET streams == SeqsUpTo(ExtractWindows, MaxWindows)
    IN { <<File(<<Prediction(<<ws>>, <<>>)>>)>> : ws \in streams }
       \cup { <<File(<<Prediction([i \in DOMAIN ws |-> <<ws[i]>>], <<>>)>>)>> : ws \in streams }
       \cup { <<File([i \in DOMAIN ws |-> Prediction(<<<<ws[i]>>>>, <<>>)])>> : ws \in streams }
       \cup { <<File(<<Prediction(<<>>, <<ws>>)>>)>> : ws \in streams }
       \cup { <<File(<<Prediction(<<ws>>, <<ws>>)>>)>> : ws \in streams }
       \cup { <<File(<<Prediction(<<<<w1>>>>, <<>>)>>), File(<<>>),
                File(<<Prediction(<<<<w2>>>>, <<>>)>>)>> :
                w1 \in ExtractWindows, w2 \in ExtractWindows }

\* analyze_audio_files without a transcript, up to the results handed to
\* determine_overall_call_emotion
InitExtract ==
    /\ pc = "extract"
    /\ predictions \in ExtractInputs
    /\ results = <<>>
    /\ transcript = <<>>
    /\ client = "absent"
    /\ response = NotCalled
    /\ judgment = NoJudgment
    /\ llmCalls = 0
    /\ raised = FALSE
    /\ ServerIdle
    /\ topN = top_n

NextExtract == ExtractTopEmotions \/ EnrichWithTranscript

SpecExtract == InitExtract /\ [][NextExtract]_vars

----------------------------------------------------------------------------
\* Inputs of the aligner with several vocal bursts

BurstOnlyWindows ==
    { Window(2000, 3000, NoText, <<Emotion("Joy", 50000)>>),
      Window(7000, 8000, NoText, <<Emotion("ANGER", 80004)>>),
      Window(3004, 4996, NoText, <<Emotion("Calmness", 60000), Emotion("Joy", 70000)>>) }

\* analyze_audio_files with a file of vocal bursts and at most one prosody
\* window, from extract_top_emotions to the enriched results
InitBurst ==
    /\ pc = "extract"
    /\ predictions \in { OneFile(ws, bs) : ws \in SeqsUpTo({Window(0, 4000, TextAccept, <<Emotion("Joy", 60000)>>)}, 1),
                                            bs \in SeqsUpTo(BurstOnlyWindows, MaxWindows) }
    /\ results = <<>>
    /\ transcript \in SeqsUpTo(Utterances, MaxUtterances)
    /\ client = "absent"
    /\ response = NotCalled
    /\ judgment = NoJudgment
    /\ llmCalls = 0
    /\ raised = FALSE
    /\ ServerIdle
    /\ topN = top_n

NextBurst == ExtractTopEmotions \/ EnrichWithTranscript

SpecBurst == InitBurst /\ [][NextBurst]_vars

----------------------------------------------------------------------------
\* Inputs of a call of extract_top_emotions with a top_n of the caller's choice

\* Largest top_n asked for
MaxTopN == 3

\* Windows with no, one, two, three and four emotions, in unsorted order and
\* with equal scores
TopNWindows ==
    { Window(0, 4000, TextAccept, <<>>),
      Window(1000, 5000, NoText, <<Emotion("Joy", 60000)>>),
      Window(2000, 6000, NoText, <<Emotion("Calmness", 60000), Emotion("ANGER", 80004)>>),
      Window(3000, 7000, TextPadded,
             <<Emotion("Calmness", 30000), Emotion("Joy", 70000), Emotion("ANGER", 70000)>>),
      Window(4000, 8000, NoText,
             <<Emotion("Zest", 10004), Emotion("ANGER", 20000), Emotion("Joy", 90000),
               Emotion("Calmness", 20000)>>) }

\* One file, the windows as prosody, as burst, or the first as burst and the
\* others as prosody
TopNInputs ==
    LET streams == SeqsUpTo(TopNWindows, MaxWindows)
    IN { <<File(<<Prediction(<<ws>>, <<>>)>>)>> : ws \in streams }
       \cup { <<File(<<Prediction(<<>>, <<ws>>)>>)>> : ws \in streams }
       \cup { <<File(<<Prediction(<<Tail(ws)>>, <<<<Head(ws)>>>>)>>)>> :
                ws \in streams \ {<<>>} }

\* A caller about to call extract_top_emotions(predictions_data, top_n)
InitTopN ==
    /\ pc = "call"
    /\ predictions \in TopNInputs
    /\ results = <<>>
    /\ transcript = <<>>
    /\ client = "absent"
    /\ response = NotCalled
    /\ judgment = NoJudgment
    /\ llmCalls = 0
    /\ raised = FALSE
    /\ ServerIdle
    /\ topN \in 1..MaxTopN

\* results = extract_top_emotions(predictions_data, top_n)
ExtractTopN ==
    /\ pc = "call"
    /\ IF ExtractRaises(predictions)
       THEN /\ raised' = TRUE
            /\ pc' = "raised"
            /\ UNCHANGED results
       ELSE /\ results' = extract_top_emotions(predictions, topN)
            /\ pc' = "returned"
            /\ UNCHANGED raised
    /\ UNCHANGED <<predictions, transcript, client, response, judgment, llmCalls>>
    /\ UNCHANGED serverVars
    /\ UNCHANGED topN

NextTopN == ExtractTopN

SpecTopN == InitTopN /\ [][NextTopN]_vars

----------------------------------------------------------------------------
\* Properties of the outcome classifier (checked under SpecOutcome)

\* determine_overall_call_emotion has returned (or raised)
Determined == pc # "determine"

\* The timeline the returned judgment is about
CallTimeline == BuildTimeline(results)

\* text contains a deferral keyword, in any letter case
TextHasDeferral(text) ==
    \E keyword \in deferral_keywords : TextContains(TextLower(text), keyword)

OnFallbackPath == Determined /\ judgment # NoJudgment /\ judgment.source = "fallback"

\* The service failed softly: it raised, or its text did not parse to a
\* non-empty object
SoftFailureKinds ==
    {"raises", "no_content", "unparsable", "json_null", "json_list", "json_empty_object"}

\* C1: for a non-empty timeline, when the classification service is absent,
\* raises, returns text that does not parse to an object, or returns an empty
\* object, determine_overall_call_emotion raises nothing and returns a
\* judgment whose source is the fallback path.
C1_FallbackOnSoftFailure ==
    (Determined /\ CallTimeline # <<>>
       /\ (client = "absent" \/ response.kind \in SoftFailureKinds))
    => (~raised /\ pc # "raised" /\ judgment # NoJudgment /\ judgment.source = "fallback")

C1_Witness ==
    /\ pc = "determined"
    /\ client = "present"
    /\ response.kind = "raises"
    /\ llmCalls = 1
    /\ judgment.source = "fallback"

\* C2: on the fallback path, whenever the final customer segment's text
\* contains a deferral keyword, call_outcome is pending, and label is neutral
\* unless that segment's category is negative, in which case it is negative.
C2_DeferralForcesPending ==
    OnFallbackPath =>
    LET final_customer == FinalCustomerSegment(CallTimeline)
    IN TextHasDeferral(final_customer.text)
       => /\ judgment.call_outcome = "pending"
          /\ (final_customer.category # "negative" => judgment.label = "neutral")
          /\ (final_customer.category = "negative" => judgment.label = "negative")

C2_Witness ==
    /\ OnFallbackPath
    /\ LET final_customer == FinalCustomerSegment(CallTimeline)
       IN /\ final_customer.text = TextDeferralUpper
          /\ final_customer.category = "positive"
    /\ judgment.call_outcome = "pending"
    /\ judgment.label = "neutral"

\* C3 as stated: on the fallback path, a final customer segment with
\* category negative and a deferral keyword in its text gives call_outcome
\* pending and label neutral.
C3_Original ==
    OnFallbackPath =>
    LET final_customer == FinalCustomerSegment(CallTimeline)
    IN (final_customer.category = "negative" /\ TextHasDeferral(final_customer.text))
       => (judgment.call_outcome = "pending" /\ judgment.label = "neutral")

\* C3 (amended): on the fallback path, a final customer segment with category
\* negative and a deferral keyword in its text ("call me back later") gives
\* call_outcome pending and label negative: the keyword overrides the outcome
\* the category maps to (unsuccessful), not the negative label.
C3_NegativeDeferral ==
    OnFallbackPath =>
    LET final_customer == FinalCustomerSegment(CallTimeline)
    IN (final_customer.category = "negative" /\ TextHasDeferral(final_customer.text))
       => /\ judgment.call_outcome = "pending"
          /\ judgment.label = "negative"
          /\ judgment.confidence = 50

C3_Witness ==
    /\ OnFallbackPath
    /\ LET final_customer == FinalCustomerSegment(CallTimeline)
       IN /\ final_customer.text = TextDeferral
          /\ final_customer.category = "negative"
          /\ StrLower(final_customer.speaker) = "customer"
    /\ judgment.call_outcome = "pending"

\* C4: on the fallback path, when the final customer segment's text contains
\* no deferral keyword, label equals that segment's category and call_outcome
\* is success for positive, pending for neutral, unsuccessful for negative.
C4_CategoryMapsToOutcome ==
    OnFallbackPath =>
    LET final_customer == FinalCustomerSegment(CallTimeline)
    IN ~TextHasDeferral(final_customer.text)
       => /\ judgment.label = final_customer.category
          /\ (final_customer.category = "positive" => judgment.call_outcome = "success")
          /\ (final_customer.category = "neutral" => judgment.call_outcome = "pending")
          /\ (final_customer.category = "negative" => judgment.call_outcome = "unsuccessful")

C4_Witness ==
    /\ OnFallbackPath
    /\ LET final_customer == FinalCustomerSegment(CallTimeline)
       IN /\ final_customer.text = TextAccept
          /\ final_customer.category = "positive"
    /\ judgment.call_outcome = "success"
    /\ judgment.label = "positive"

\* The response parsed to a non-empty object whose overall_emotion is missing
\* or names none of positive, neutral, negative
InvalidOverallEmotion ==
    /\ response.kind \in {"json_object", "embedded_object"}
    /\ \/ response.obj.overall_emotion = None
       \/ StrStripLower(response.obj.overall_emotion) \notin Categories

\* C5: when the classifier's response parses to an object whose
\* overall_emotion is missing or is not one of positive, neutral, negative,
\* the returned judgment is the fallback path's (source fallback).
C5_InvalidEmotionFallsBack ==
    (Determined /\ InvalidOverallEmotion)
    => (judgment # NoJudgment /\ judgment.source = "fallback")

\* No result holds a prosody segment with both times present
NoAcousticSegments ==
    \A k \in DOMAIN results : \A i \in DOMAIN results[k].prosody :
        LET segment == results[k].prosody[i]
        IN \/ segment.time_start = NoTime
           \/ segment.time_end = NoTime

\* C6: with no acoustic segments at all (no results, or no usable segment in
\* any result) determine_overall_call_emotion returns None without calling
\* the classifier, and analyze_audio_files attaches no overall_call_emotion
\* to any result's metadata.
C6_EmptyTimelineNoJudgment ==
    (Determined /\ NoAcousticSegments)
    => /\ judgment = NoJudgment
       /\ llmCalls = 0
       /\ response = NotCalled
       /\ \A k \in DOMAIN results :
              results[k].metadata.overall_call_emotion = NoJudgment

C6_Witness ==
    /\ pc = "done"
    /\ client = "present"
    /\ results # <<>>
    /\ \E k \in DOMAIN results : results[k].prosody # <<>>
    /\ NoAcousticSegments
    /\ judgment = NoJudgment

\* C7: every judgment returned by either path, whatever the classifier
\* responded, has label in {positive, neutral, negative}, call_outcome in
\* {success, pending, unsuccessful} and confidence within [0,1].
C7_JudgmentWellFormed ==
    (Determined /\ judgment # NoJudgment)
    => /\ judgment.label \in Categories
       /\ judgment.call_outcome \in CallOutcomes
       /\ judgment.confidence >= 0
       /\ judgment.confidence <= 100


\* The timeline entries of the usable prosody segments of all results, as a
\* set (no order)
TimelineEntries ==
    UNION { { TimelineEntry(results[k].prosody[i], results[k].metadata) :
                i \in {i \in DOMAIN results[k].prosody : SegmentUsable(results[k].prosody[i])} } :
            k \in DOMAIN results }

\* The entry's speaker role is the customer
CustomerLabeled(entry) == StrLower(entry.speaker) \in CustomerSpeakers

\* entry is a last customer-labeled entry in ascending start order, or a last
\* entry when no entry is customer-labeled
LastCustomerOrLast(entry, entries) ==
    LET customers == {e \in entries : CustomerLabeled(e)}
    IN /\ entry \in entries
       /\ customers # {} =>
             /\ entry \in customers
             /\ \A e \in customers : e.start <= entry.start
       /\ customers = {} => \A e \in entries : e.start <= entry.start

\* C24: the segment judged as final_customer_segment is the last segment, in
\* ascending start order of the whole timeline (the usable prosody segments of
\* all results, not only the tail), whose speaker role is the customer; when
\* no segment is customer-labeled it is the timeline's very last segment.  The
\* fallback path's judgment is the one of such a segment.
C24_FinalCustomerIsLast ==
    (Determined /\ CallTimeline # <<>>) =>
    LET timeline == CallTimeline
        entries == TimelineEntries
        final == FinalCustomerSegment(timeline)
    IN /\ LastCustomerOrLast(final, entries)
       /\ (\A e \in entries : ~CustomerLabeled(e)) => final = timeline[Len(timeline)]
       /\ OnFallbackPath =>
             /\ judgment = FallbackJudgment(final)
             /\ \E e \in entries :
                   LastCustomerOrLast(e, entries) /\ judgment = FallbackJudgment(e)

\* The customer's only segment came first in time, an agent's segment
\* after it: the first entry of the sorted timeline was judged, on the
\* fallback path
C24_Witness ==
    /\ OnFallbackPath
    /\ LET timeline == CallTimeline
           final == FinalCustomerSegment(timeline)
       IN /\ Len(timeline) = 2
          /\ final = timeline[1]
          /\ CustomerLabeled(timeline[1])
          /\ ~CustomerLabeled(timeline[2])
          /\ timeline[1].start < timeline[2].start
          /\ judgment = FallbackJudgment(timeline[1])
          /\ judgment # FallbackJudgment(timeline[2])

----------------------------------------------------------------------------
\* Properties of the transcript aligner (checked under SpecAlign)

\* The results are the aligned ones, and a transcript was supplied
Aligned == pc = "determine" /\ transcript # <<>>

\* The deduplicated segments the aligner was handed
Deduplicated == extract_top_emotions(predictions, top_n)

\* Utterance u is the match of window segment w: its overlap with w is
\* positive, no utterance overlaps w more, and none before u as much
IsMatch(w, u) ==
    LET ov(v) == Overlap(w.time_start, w.time_end, transcript[v])
    IN /\ ov(u) > 0
       /\ \A v \in DOMAIN transcript : ov(v) <= ov(u)
       /\ \A v \in 1..(u - 1) : ov(v) < ov(u)

\* x is t rounded to 2 decimals
IsRounded2(x, t) == x % 10 = 0 /\ x - t <= 5 /\ t - x <= 5

\* Segment s carries utterance u's time range, speaker and text
AnchoredAt(s, u) ==
    /\ IsRounded2(s.time_start, transcript[u].start)
    /\ IsRounded2(s.time_end, transcript[u].end)
    /\ s.speaker = transcript[u].speaker
    /\ s.text = transcript[u].text

\* The segments of the list prosody matched to utterance u
GroupOf(prosody, u) == {i \in DOMAIN prosody : IsMatch(prosody[i], u)}

\* The utterances that get a segment: matched by a segment of the list
\* prosody, and with a text that is not blank
EmittedUtterances(prosody) ==
    {u \in DOMAIN transcript :
        TextStrip(transcript[u].text) # <<>> /\ GroupOf(prosody, u) # {}}

\* C8: with a transcript supplied, every segment of the aligned prosody list
\* has time_start and time_end equal to its matched utterance's start and end
\* rounded to 2 decimals, not the acoustic window's range: the segment comes
\* from a window of the file, and carries the range of that window's match.
C8_ReanchoredToUtterance ==
    Aligned =>
    LET deduplicated == Deduplicated
    IN \A k \in DOMAIN results : \A j \in DOMAIN results[k].prosody :
          \E u \in DOMAIN transcript : \E i \in GroupOf(deduplicated[k].prosody, u) :
              /\ results[k].prosody[j].top_emotions = deduplicated[k].prosody[i].top_emotions
              /\ AnchoredAt(results[k].prosody[j], u)

\* A window with a range of its own was matched and emitted with the
\* utterance's rounded range
C8_Witness ==
    /\ Aligned
    /\ Len(transcript) = 2
    /\ LET deduplicated == Deduplicated
       IN \E k \in DOMAIN results : \E j \in DOMAIN results[k].prosody :
          \E u \in DOMAIN transcript : \E i \in GroupOf(deduplicated[k].prosody, u) :
             /\ AnchoredAt(results[k].prosody[j], u)
             /\ results[k].prosody[j].top_emotions = deduplicated[k].prosody[i].top_emotions
             /\ deduplicated[k].prosody[i].time_start # results[k].prosody[j].time_start
             /\ transcript[u].start # results[k].prosody[j].time_start

\* The highest top score among the segments numbered by group
GroupMaxScore(prosody, group) ==
    CHOOSE m \in {TopScore(prosody[i]) : i \in group} :
        \A i \in group : TopScore(prosody[i]) <= m

\* C9: for every group of two or more prosody segments matched to the same
\* utterance, the segment emitted for that utterance has a top score equal to
\* the maximum top score over the group.
C9_RepresentativeHasMaxScore ==
    Aligned =>
    LET deduplicated == Deduplicated
    IN \A k \in DOMAIN results : \A u \in EmittedUtterances(deduplicated[k].prosody) :
          LET group == GroupOf(deduplicated[k].prosody, u)
          IN Cardinality(group) >= 2 =>
                \E j \in DOMAIN results[k].prosody :
                    /\ AnchoredAt(results[k].prosody[j], u)
                    /\ TopScore(results[k].prosody[j])
                          = GroupMaxScore(deduplicated[k].prosody, group)

\* A group of two windows with different top scores, the lower one first
C9_Witness ==
    /\ Aligned
    /\ LET deduplicated == Deduplicated
       IN \E k \in DOMAIN results : \E u \in EmittedUtterances(deduplicated[k].prosody) :
          LET group == GroupOf(deduplicated[k].prosody, u)
              top == GroupMaxScore(deduplicated[k].prosody, group)
          IN /\ Cardinality(group) >= 2
             /\ \E i \in group :
                   /\ TopScore(deduplicated[k].prosody[i]) < top
                   /\ \A i2 \in group : i <= i2
             /\ \E j \in DOMAIN results[k].prosody :
                   AnchoredAt(results[k].prosody[j], u) /\ TopScore(results[k].prosody[j]) = top

\* C10: with a transcript supplied, the aligned prosody list never holds two
\* segments for the same utterance: it has exactly one segment per utterance
\* that windows were matched to, however many windows that were.
C10_OneSegmentPerUtterance ==
    Aligned =>
    LET deduplicated == Deduplicated
    IN \A k \in DOMAIN results :
          LET emitted == EmittedUtterances(deduplicated[k].prosody)
          IN /\ Len(results[k].prosody) = Cardinality(emitted)
             /\ \A u \in emitted :
                   \E j \in DOMAIN results[k].prosody : AnchoredAt(results[k].prosody[j], u)

\* Two windows on one utterance gave one segment
C10_Witness ==
    /\ Aligned
    /\ LET deduplicated == Deduplicated
       IN \E k \in DOMAIN results :
             /\ Len(deduplicated[k].prosody) = 2
             /\ Len(results[k].prosody) = 1
             /\ \E u \in EmittedUtterances(deduplicated[k].prosody) :
                   Cardinality(GroupOf(deduplicated[k].prosody, u)) = 2

\* Window segment w overlaps utterance u
Overlaps(w, u) == Overlap(w.time_start, w.time_end, transcript[u]) > 0

\* Some segment of the aligned list prosody is anchored at utterance u
HasSegmentFor(prosody, u) == \E j \in DOMAIN prosody : AnchoredAt(prosody[j], u)

\* C11 as stated: with a transcript supplied, every utterance that a prosody
\* segment with non-empty recognized text overlaps has a segment in the
\* aligned prosody list.
C11_Original ==
    Aligned =>
    LET deduplicated == Deduplicated
    IN \A k \in DOMAIN results : \A u \in DOMAIN transcript :
          (\E i \in DOMAIN deduplicated[k].prosody :
              /\ Overlaps(deduplicated[k].prosody[i], u)
              /\ TextTruthy(deduplicated[k].prosody[i].text))
          => HasSegmentFor(results[k].prosody, u)

\* C11 (amended): with a transcript supplied, every utterance whose text is
\* not blank and that is the best-overlap match of at least one deduplicated
\* prosody segment (whether or not the window carries recognized text of its
\* own) has a segment in the aligned prosody list, with the emotions of a
\* window matched to it.  An utterance that windows merely overlap, while
\* they overlap another utterance more, gets none.
C11_MatchedUtteranceEmitted ==
    Aligned =>
    LET deduplicated == Deduplicated
    IN \A k \in DOMAIN results : \A u \in DOMAIN transcript :
          LET group == GroupOf(deduplicated[k].prosody, u)
          IN (TextStrip(transcript[u].text) # <<>> /\ group # {})
             => \E j \in DOMAIN results[k].prosody :
                   /\ AnchoredAt(results[k].prosody[j], u)
                   /\ \E i \in group :
                         deduplicated[k].prosody[i].top_emotions
                            = results[k].prosody[j].top_emotions

\* A window without recognized text was matched to an utterance, which got
\* its segment, while another utterance the window overlaps less got none
C11_Witness ==
    /\ Aligned
    /\ Len(transcript) = 2
    /\ LET deduplicated == Deduplicated
       IN \E k \in DOMAIN results : \E u \in DOMAIN transcript :
          \E v \in DOMAIN transcript :
          \E i \in GroupOf(deduplicated[k].prosody, u) :
             /\ ~TextTruthy(deduplicated[k].prosody[i].text)
             /\ HasSegmentFor(results[k].prosody, u)
             /\ v # u
             /\ Overlaps(deduplicated[k].prosody[i], v)
             /\ TextStrip(transcript[v].text) # <<>>
             /\ ~HasSegmentFor(results[k].prosody, v)

\* The ranges of window segment w and utterance u are disjoint
Disjoint(w, u) ==
    w.time_end <= transcript[u].start \/ transcript[u].end <= w.time_start

\* What _find_best_transcript_match returns for window segment w
MatchOf(w) == find_best_transcript_match(w.time_start, w.time_end, transcript)

\* extract_top_emotions has run
Extracted == pc # "extract"

\* C12: for every deduplicated segment (prosody or burst) and utterance with
\* disjoint ranges, the computed overlap is 0 and _find_best_transcript_match
\* does not return that utterance for that segment; it returns no match when
\* every utterance is disjoint, and a burst segment in that case leaves the
\* aligner without speaker and transcript text.
C12_DisjointNeverMatched ==
    Extracted =>
    LET deduplicated == Deduplicated
    IN \A k \in DOMAIN deduplicated :
          /\ \A w \in {deduplicated[k].prosody[i] : i \in DOMAIN deduplicated[k].prosody}
                  \cup {deduplicated[k].burst[i] : i \in DOMAIN deduplicated[k].burst} :
                /\ \A u \in DOMAIN transcript :
                      Disjoint(w, u)
                      => /\ Overlap(w.time_start, w.time_end, transcript[u]) = 0
                         /\ MatchOf(w) # u
                /\ (\A u \in DOMAIN transcript : Disjoint(w, u)) => MatchOf(w) = 0
          /\ Aligned =>
                \A i \in DOMAIN deduplicated[k].burst :
                    (\A u \in DOMAIN transcript : Disjoint(deduplicated[k].burst[i], u))
                    => /\ results[k].burst[i].speaker = None
                       /\ results[k].burst[i].transcript_text = NoText

\* A prosody window that starts where one utterance ends was matched to the
\* other utterance, and a burst disjoint from both stayed unmatched
C12_Witness ==
    /\ Aligned
    /\ Len(transcript) = 2
    /\ LET deduplicated == Deduplicated
       IN \E k \in DOMAIN results :
             /\ \E i \in DOMAIN deduplicated[k].prosody : \E u \in DOMAIN transcript :
                   /\ deduplicated[k].prosody[i].time_start = transcript[u].end
                   /\ MatchOf(deduplicated[k].prosody[i]) \notin {0, u}
             /\ \E i \in DOMAIN deduplicated[k].burst :
                   /\ \A u \in DOMAIN transcript : Disjoint(deduplicated[k].burst[i], u)
                   /\ results[k].burst[i].speaker = None

\* The list is non-decreasing by time_start
NonDecreasing(segments) ==
    \A i \in DOMAIN segments : \A j \in DOMAIN segments :
        i < j => segments[i].time_start <= segments[j].time_start

\* C15: in the timeline returned for a call, with or without a transcript,
\* the prosody list and the burst list of every result are each
\* non-decreasing by time_start, whatever the order of the input windows.
C15_ListsChronological ==
    pc = "determine" =>
    \A k \in DOMAIN results :
       /\ NonDecreasing(results[k].prosody)
       /\ NonDecreasing(results[k].burst)

\* C20: for every deduplicated segment that some utterance overlaps,
\* _find_best_transcript_match returns an utterance whose overlap with the
\* segment is positive and at least as large as every other utterance's, and
\* of the utterances with that largest overlap the first in transcript
\* order; an aligned burst segment carries the speaker of that utterance.
C20_BestOverlapFirstOnTies ==
    Extracted =>
    LET deduplicated == Deduplicated
    IN \A k \in DOMAIN deduplicated :
          /\ \A w \in {deduplicated[k].prosody[i] : i \in DOMAIN deduplicated[k].prosody}
                  \cup {deduplicated[k].burst[i] : i \in DOMAIN deduplicated[k].burst} :
                /\ (\E u \in DOMAIN transcript : Overlaps(w, u)) => MatchOf(w) # 0
                /\ MatchOf(w) # 0 => IsMatch(w, MatchOf(w))
          /\ Aligned =>
                \A i \in DOMAIN deduplicated[k].burst :
                    MatchOf(deduplicated[k].burst[i]) # 0
                    => results[k].burst[i].speaker
                          = transcript[MatchOf(deduplicated[k].burst[i])].speaker

\* Two utterances of different speakers overlap a burst segment equally and
\* most; the segment got the speaker of the first
C20_Witness ==
    /\ Aligned
    /\ LET deduplicated == Deduplicated
       IN \E k \in DOMAIN results : \E i \in DOMAIN deduplicated[k].burst :
          \E u \in DOMAIN transcript : \E v \in DOMAIN transcript :
             LET w == deduplicated[k].burst[i]
             IN /\ u < v
                /\ IsMatch(w, u)
                /\ Overlap(w.time_start, w.time_end, transcript[v])
                      = Overlap(w.time_start, w.time_end, transcript[u])
                /\ transcript[u].speaker # transcript[v].speaker
                /\ results[k].burst[i].speaker = transcript[u].speaker

\* The segments of the list prosody that no utterance overlaps
Unmatched(prosody) ==
    {i \in DOMAIN prosody : \A u \in DOMAIN transcript : ~Overlaps(prosody[i], u)}

\* C21: with a transcript supplied, a prosody segment that has zero overlap
\* with every utterance does not appear in the aligned prosody list, whatever
\* recognized text or score it carries: the aligned list has no segment with
\* its time range, has at most one segment per overlapped window, and every
\* segment of it carries the emotions of a window that an utterance overlaps.
C21_UnmatchedDropped ==
    Aligned =>
    LET deduplicated == Deduplicated
    IN \A k \in DOMAIN results :
          LET windows == deduplicated[k].prosody
              unmatched == Unmatched(windows)
          IN /\ \A i \in unmatched : \A j \in DOMAIN results[k].prosody :
                   \/ results[k].prosody[j].time_start # windows[i].time_start
                   \/ results[k].prosody[j].time_end # windows[i].time_end
             /\ Len(results[k].prosody) <= Len(windows) - Cardinality(unmatched)
             /\ \A j \in DOMAIN results[k].prosody :
                   \E i \in DOMAIN windows \ unmatched :
                       results[k].prosody[j].top_emotions = windows[i].top_emotions

\* A window with recognized text and the highest score of its file lies
\* outside every utterance and is missing from the aligned list, which holds
\* the segment of the other window
C21_Witness ==
    /\ Aligned
    /\ LET deduplicated == Deduplicated
       IN \E k \in DOMAIN results :
             LET windows == deduplicated[k].prosody
             IN \E i \in Unmatched(windows) :
                   /\ TextTruthy(windows[i].text)
                   /\ \A i2 \in DOMAIN windows \ {i} :
                          TopScore(windows[i2]) < TopScore(windows[i])
                   /\ Len(windows) = 2
                   /\ Len(results[k].prosody) = 1
                   /\ results[k].prosody[1].top_emotions # windows[i].top_emotions

\* C22: with a transcript supplied, the prosody list produced by
\* enrich_results_with_transcript is sorted ascending by the re-anchored
\* time_start, for any order of the input windows and of the utterances.
C22_AlignedProsodySorted ==
    Aligned => \A k \in DOMAIN results : NonDecreasing(results[k].prosody)

\* The transcript lists a later utterance first, the windows came in the
\* transcript's order, and the utterance listed second leads the aligned list
C22_Witness ==
    /\ Aligned
    /\ Len(transcript) = 2
    /\ transcript[1].start > transcript[2].start
    /\ LET deduplicated == Deduplicated
       IN \E k \in DOMAIN results :
             /\ Len(results[k].prosody) = 2
             /\ Len(deduplicated[k].prosody) = 2
             /\ IsMatch(deduplicated[k].prosody[1], 1)
             /\ IsMatch(deduplicated[k].prosody[2], 2)
             /\ AnchoredAt(results[k].prosody[1], 2)
             /\ AnchoredAt(results[k].prosody[2], 1)
             /\ results[k].prosody[1].time_start < results[k].prosody[2].time_start

\* The segments of the list whose primary_category is c
CountOf(segments, c) ==
    Cardinality({i \in DOMAIN segments : segments[i].primary_category = c})

\* C26: in every result analyze_audio_files hands on, with or without a
\* transcript, metadata.category_counts[c] equals the number of segments in
\* that result's prosody and burst lists whose primary_category is c, for
\* each category c.
C26_CategoryCountsMatch ==
    pc = "determine" =>
    \A k \in DOMAIN results : \A c \in Categories :
        results[k].metadata.category_counts[c]
           = CountOf(results[k].prosody, c) + CountOf(results[k].burst, c)

----------------------------------------------------------------------------
\* Properties of extract_top_emotions (checked under SpecExtract)

\* extract_top_emotions has returned its results
Returned == pc \in {"enrich", "determine"}

\* The items that get a result, in order: results[k] is the result of
\* ExtractedItems[k]
ExtractedItems == SelectSeq(predictions, LAMBDA item : item.preds # <<>>)

\* All windows of one model kind of an item, in input order
ItemWindows(item, kind) ==
    Concat([p \in DOMAIN item.preds |->
              Concat(IF kind = "prosody" THEN item.preds[p].prosody
                     ELSE item.preds[p].burst)])

\* (time_start, time_end) of an emitted segment
RangeOf(segment) == <<segment.time_start, segment.time_end>>

\* C13: given two prosody windows of one file with identical rounded
\* (time_start, time_end) and different emotion rankings, the file's result
\* has exactly one segment for that range, with the emotions of the window
\* that is first in input order.
C13_FirstWindowKept ==
    Returned =>
    \A k \in DOMAIN results :
       LET windows == ItemWindows(ExtractedItems[k], "prosody")
       IN \A i \in DOMAIN windows : \A j \in DOMAIN windows :
             ( /\ i < j
               /\ \A h \in 1..(i - 1) : TimeRangeKey(windows[h]) # TimeRangeKey(windows[i])
               /\ TimeRangeKey(windows[i]) = TimeRangeKey(windows[j])
               /\ windows[i].emotions # <<>>
               /\ windows[j].emotions # <<>>
               /\ windows[i].emotions # windows[j].emotions )
             => LET emitted == {n \in DOMAIN results[k].prosody :
                                  RangeOf(results[k].prosody[n]) = TimeRangeKey(windows[i])}
                IN /\ Cardinality(emitted) = 1
                   /\ \A n \in emitted :
                         results[k].prosody[n].top_emotions
                            = EnrichedTopEmotions(windows[i].emotions, top_n)

\* C14: in each file's result, no two emitted segments of the same model
\* kind share the same (round(time_start, 2), round(time_end, 2)) pair, in
\* the prosody list and in the burst list, across all predictions and groups
\* of the file.
C14_DistinctRangesPerKind ==
    Returned =>
    \A k \in DOMAIN results :
       /\ \A i \in DOMAIN results[k].prosody : \A j \in DOMAIN results[k].prosody :
             i # j => RangeOf(results[k].prosody[i]) # RangeOf(results[k].prosody[j])
       /\ \A i \in DOMAIN results[k].burst : \A j \in DOMAIN results[k].burst :
             i # j => RangeOf(results[k].burst[i]) # RangeOf(results[k].burst[j])

\* A window is malformed: it has no time range, or an emotion whose score is
\* not a number
Malformed(window) ==
    \/ window.begin = AbsentTime
    \/ window.end = AbsentTime
    \/ \E i \in DOMAIN window.emotions : window.emotions[i].score = NonNumeric

\* C17: a malformed window (missing time range, or an emotion with a
\* non-numeric score) is omitted from the emitted timeline, while
\* extract_top_emotions raises no error and still emits every well-formed
\* window of the same file: every emitted segment is the segment of a
\* well-formed window of its file and kind, and every well-formed window
\* with emotions has a segment with its rounded range.
C17_MalformedWindowOmitted ==
    pc # "extract" =>
    /\ ~raised
    /\ pc # "raised"
    /\ \A k \in DOMAIN results : \A kind \in {"prosody", "burst"} :
          LET windows == ItemWindows(ExtractedItems[k], kind)
              emitted == IF kind = "prosody" THEN results[k].prosody ELSE results[k].burst
          IN /\ \A n \in DOMAIN emitted :
                   \E i \in DOMAIN windows :
                      /\ ~Malformed(windows[i])
                      /\ RangeOf(emitted[n]) = TimeRangeKey(windows[i])
                      /\ emitted[n].top_emotions
                            = EnrichedTopEmotions(windows[i].emotions, top_n)
             /\ \A i \in DOMAIN windows :
                   (~Malformed(windows[i]) /\ windows[i].emotions # <<>>)
                   => \E n \in DOMAIN emitted :
                         RangeOf(emitted[n]) = TimeRangeKey(windows[i])

\* The top emotions of all segments extract_top_emotions emitted
EmittedEmotions ==
    LET lists == {results[k].prosody : k \in DOMAIN results}
                 \cup {results[k].burst : k \in DOMAIN results}
        segments == UNION { {list[n] : n \in DOMAIN list} : list \in lists }
    IN UNION { {segment.top_emotions[e] : e \in DOMAIN segment.top_emotions} :
               segment \in segments }

\* C19: categorize_emotion is total and case-insensitive: the category given
\* to a name is the category of the lower-cased name, null and the empty
\* string get the default category, and every category is one of positive,
\* neutral, negative.
C19_CategorizeCaseInsensitive ==
    Returned =>
    \A emotion \in EmittedEmotions :
       /\ emotion.category \in Categories
       /\ emotion.name \in {None, ""} => emotion.category = DEFAULT_EMOTION_CATEGORY
       /\ emotion.name # None =>
             emotion.category = categorize_emotion(NameLower(emotion.name))

\* The same known name was categorized in two letter cases, and null and the
\* empty string were categorized
C19_Witness ==
    /\ Returned
    /\ Len(results) = 2
    /\ \E a \in EmittedEmotions : \E b \in EmittedEmotions :
          /\ a.name = "JOY"
          /\ b.name \in {None, ""}
          /\ a.category = "positive"
          /\ b.category = "neutral"

\* The segments of all results, prosody and burst
AllSegments ==
    UNION { {results[k].prosody[n] : n \in DOMAIN results[k].prosody}
            \cup {results[k].burst[n] : n \in DOMAIN results[k].burst} :
            k \in DOMAIN results }

\* C16: when no transcript is supplied, the aligner leaves every result
\* unchanged: the results are the deduplicated prosody and burst segments
\* with their own timing, in their order, and no segment has a speaker or a
\* transcript text.
C16_NoTranscriptPassthrough ==
    (pc = "determine" /\ transcript = <<>>) =>
    /\ results = Deduplicated
    /\ \A segment \in AllSegments :
          /\ segment.speaker = None
          /\ segment.transcript_text = NoText
          /\ segment.transcript_index = NoIndex
    /\ \A k \in DOMAIN results : ~results[k].metadata.retell_transcript_available

\* Two prosody segments, the later one first, and a burst segment went
\* through without a transcript
C16_Witness ==
    /\ pc = "determine"
    /\ transcript = <<>>
    /\ \E k \in DOMAIN results :
          /\ Len(results[k].prosody) = 2
          /\ results[k].prosody[1].time_start > results[k].prosody[2].time_start
          /\ results[k].burst # <<>>
          /\ results[k].prosody[1].speaker = None

----------------------------------------------------------------------------
\* The API server (src/api/api_server.py): one call's row in the calls table,
\* the requests that touch it and the background analyses started for it

\* Background analyses of the call that may be under way at once
MaxAnalyses == 2

\* Values of Call.analysis_status
AnalysisStatuses == {"pending", "processing", "completed", "error", "blocked"}

\* What analyze_audio_files hands back for the call's recording: the segment
\* lists to store, and the judgment _extract_overall_emotion_from_results finds
\* in their metadata (None when the classifier returned none)
AnalysisOutcomes ==
    { [results |-> "R1", overall |-> "J1"],
      [results |-> "R2", overall |-> "J2"],
      [results |-> "R3", overall |-> None] }

\* Call(...) as _upsert_retell_call_metadata creates it, with the column defaults
NewCall(status, allowed) ==
    [ exists               |-> TRUE,
      analysis_status      |-> status,
      analysis_available   |-> FALSE,
      analysis_allowed     |-> allowed,
      error_message        |-> None,
      overall_emotion_json |-> None,
      stored_results       |-> None ]

\* the keys _update_retell_call_entry also sets to None
NullableKeys == {"analysis_status", "error_message", "analysis_allowed"}
\* the keys whose values are booleans, never None
BooleanKeys == {"analysis_available", "analysis_allowed"}

\* Faulty variant of update_retell_call_entry: the row is written as the
\* updates say, a disallowed call's status and message included
update_retell_call_entry_as_given(row, updates) ==
    [key \in DOMAIN row |->
        IF /\ key \in DOMAIN updates
           /\ (key \in BooleanKeys \/ key \in NullableKeys \/ updates[key] # None)
        THEN updates[key]
        ELSE row[key]]

\* _update_retell_call_entry on an existing row
update_retell_call_entry(row, updates) ==
    LET set == [key \in DOMAIN row |->
                  IF /\ key \in DOMAIN updates
                     /\ (key \in BooleanKeys \/ key \in NullableKeys \/ updates[key] # None)
                  THEN updates[key]
                  ELSE row[key]]
    IN IF set.analysis_allowed = FALSE
       THEN [set EXCEPT !.analysis_status = "blocked", !.error_message = None]
       ELSE set

\* What the data Retell sends about a call says to _calculate_duration_ms and
\* _evaluate_call_constraints: a duration of zero, voicemail or a duration under
\* 15 s, or neither
CallData == {"zero_duration", "disallowed", "allowed"}

\* _upsert_retell_call_metadata(db, call_data, status): the row afterwards
upsert_retell_call_metadata(row, call_data, status) ==
    IF call_data = "zero_duration"
    THEN NoCall
    ELSE LET allowed == call_data = "allowed"
             upserted == IF row.exists
                         THEN [row EXCEPT !.analysis_status = status,
                                          !.analysis_allowed = allowed]
                         ELSE NewCall(status, allowed)
         IN IF ~allowed
            THEN [upserted EXCEPT !.analysis_status = "blocked", !.error_message = None]
            ELSE upserted

\* _refresh_call_metadata on an existing row
refresh_call_metadata(row, allowed) ==
    IF ~allowed
    THEN [row EXCEPT !.analysis_allowed = FALSE,
                     !.analysis_status = "blocked",
                     !.error_message = None]
    ELSE [row EXCEPT !.analysis_allowed = TRUE,
                     !.analysis_status = IF @ = "blocked" THEN "pending" ELSE @]

\* The body of a response
Answer(code, body, stored, overall) ==
    [code |-> code, body |-> body, results |-> stored, overall |-> overall]

\* get_retell_call_analysis: the response, a raised HTTPException being the
\* response with its status code
get_retell_call_analysis(row) ==
    IF ~row.exists THEN Answer(404, "call_not_found", None, None)
    ELSE IF row.analysis_status = "processing" THEN Answer(200, "processing", None, None)
    ELSE IF row.analysis_status = "error" THEN Answer(500, "error", None, None)
    ELSE IF ~row.analysis_available THEN Answer(404, "analysis_not_available", None, None)
    ELSE Answer(200, "results", row.stored_results, row.overall_emotion_json)

\* A served request and its response
Served(op, force, answer) == [op |-> op, force |-> force, answer |-> answer]

\* What the handler of _process_retell_call leaves in the table for a failed
\* analysis, before it raises the exception again: it cannot re-create a
\* deleted row (it has no organization)
RecordProcessError(row) ==
    IF row.exists
    THEN update_retell_call_entry(row, [analysis_status |-> "error", error_message |-> "message"])
    ELSE row

\* What the handlers of _process_retell_call_background leave in the table for
\* the exception that reached them: they re-create a deleted row
RecordError(row) ==
    IF row.exists
    THEN update_retell_call_entry(row, [analysis_status |-> "error", error_message |-> "message"])
    ELSE update_retell_call_entry(upsert_retell_call_metadata(row, "allowed", "error"),
                                  [error_message |-> "message"])

InitServer ==
    /\ pc = "idle"
    /\ predictions = <<>>
    /\ results = <<>>
    /\ transcript = <<>>
    /\ client = "absent"
    /\ response = NotCalled
    /\ judgment = NoJudgment
    /\ llmCalls = 0
    /\ raised = FALSE
    /\ ServerIdle
    /\ topN = top_n

\* POST /{org_id}/{agent_id}/retell/webhook (and its two sibling routes)
RetellWebhook ==
    /\ pc = "idle"
    /\ \E event \in {"call_analyzed", "call_started"}, call_data \in CallData :
         IF event # "call_analyzed"
         THEN /\ reply' = Served("webhook", FALSE, Answer(200, "ignored", None, None))
              /\ UNCHANGED call
         ELSE /\ call' = upsert_retell_call_metadata(call, call_data, "pending")
              /\ reply' = Served("webhook", FALSE, Answer(200, "registered", None, None))
    /\ UNCHANGED tasks
    /\ UNCHANGED analysisVars
    /\ UNCHANGED topN

\* POST /retell/calls/refresh?call_id=...
RefreshRetellCalls ==
    /\ pc = "idle"
    /\ IF ~call.exists
       THEN /\ reply' = Served("refresh", FALSE, Answer(200, "errors", None, None))
            /\ UNCHANGED call
       ELSE \E allowed \in BOOLEAN :
              /\ call' = refresh_call_metadata(call, allowed)
              /\ reply' = Served("refresh", FALSE, Answer(200, "refreshed", None, None))
    /\ UNCHANGED tasks
    /\ UNCHANGED analysisVars
    /\ UNCHANGED topN

\* GET /retell/calls
ListRetellCalls ==
    /\ pc = "idle"
    /\ LET has_overall_emotion == call.overall_emotion_json # None
           loaded == call.overall_emotion_json
       IN call' = IF /\ call.exists
                     /\ call.analysis_status = "completed"
                     /\ ~has_overall_emotion
                     /\ loaded # None
                  THEN update_retell_call_entry(call, [overall_emotion_json |-> loaded])
                  ELSE call
    /\ reply' = Served("list", FALSE,
                       Answer(200, "calls", None,
                              IF call.exists THEN call.overall_emotion_json ELSE None))
    /\ UNCHANGED tasks
    /\ UNCHANGED analysisVars
    /\ UNCHANGED topN

\* A background task that has returned: nothing of it is left
ReturnedTask == [force |-> FALSE, pc |-> "done", evaluated |-> None, downloaded |-> FALSE]

\* the background tasks that have not returned yet
Unfinished(queue) == {t \in DOMAIN queue : queue[t].pc # "done"}

\* background_tasks.add_task(_process_retell_call_background, ...): the new
\* task takes the place of the first one that has returned, if there is one
add_task(queue, force) ==
    LET task == [force |-> force, pc |-> "queued",
                 evaluated |-> None, downloaded |-> FALSE]
        returned == DOMAIN queue \ Unfinished(queue)
    IN IF returned = {}
       THEN Append(queue, task)
       ELSE [queue EXCEPT ![CHOOSE t \in returned : \A u \in returned : t <= u] = task]

\* POST /retell/calls/{call_id}/analyze?force=...
AnalyzeRetellCall(force) ==
    /\ pc = "idle"
    /\ IF ~call.exists
       THEN /\ reply' = Served("analyze", force, Answer(404, "call_not_found", None, None))
            /\ UNCHANGED <<call, tasks>>
       ELSE IF call.analysis_allowed = FALSE
       THEN /\ reply' = Served("analyze", force, Answer(400, "blocked", None, None))
            /\ UNCHANGED <<call, tasks>>
       ELSE IF ~force /\ get_retell_call_analysis(call).code # 404
       THEN /\ reply' = Served("analyze", force, get_retell_call_analysis(call))
            /\ UNCHANGED <<call, tasks>>
       ELSE IF call.analysis_status = "processing"
       THEN /\ reply' = Served("analyze", force, Answer(200, "already_in_progress", None, None))
            /\ UNCHANGED <<call, tasks>>
       ELSE /\ Cardinality(Unfinished(tasks)) < MaxAnalyses
            /\ call' = update_retell_call_entry(call, [analysis_status |-> "processing",
                                                       error_message |-> None])
            /\ tasks' = add_task(tasks, force)
            /\ reply' = Served("analyze", force, Answer(200, "started", None, None))
    /\ UNCHANGED analysisVars
    /\ UNCHANGED topN

\* Faulty variant of BlockedBeforeDownload: the analysis goes on to the
\* download whatever the constraints say
BlockedBeforeDownloadNever(analysis_allowed) == FALSE

\* _process_retell_call raises its HTTPException 400 before it reaches
\* download_retell_recording
BlockedBeforeDownload(analysis_allowed) == ~analysis_allowed

\* _process_retell_call_background, up to the download of the recording: the
\* constraints are re-evaluated on the data fetched from Retell. A task
\* records what the evaluation said and whether download_retell_recording
\* was called
ProcessStart(t) ==
    /\ pc = "idle"
    /\ tasks[t].pc = "queued"
    /\ \E fetched \in {"no_recording", "disallowed", "allowed"} :
         IF fetched = "no_recording"
         THEN /\ call' = RecordProcessError(call)
              /\ tasks' = [tasks EXCEPT ![t].pc = "raised"]
         ELSE LET allowed == fetched = "allowed"
                  metadata_updates ==
                      IF allowed
                      THEN [analysis_allowed |-> TRUE]
                      ELSE [analysis_allowed |-> FALSE,
                            analysis_status  |-> "blocked",
                            error_message    |-> None]
                  row == IF call.exists
                         THEN call
                         ELSE upsert_retell_call_metadata(call, "allowed", "processing")
                  updated == update_retell_call_entry(row, metadata_updates)
              IN IF BlockedBeforeDownload(allowed)
                 THEN /\ call' = RecordProcessError(updated)
                      /\ tasks' = [tasks EXCEPT ![t].pc = "raised",
                                                ![t].evaluated = fetched]
                 ELSE /\ call' = updated
                      /\ tasks' = [tasks EXCEPT ![t].pc = "running",
                                                ![t].evaluated = fetched,
                                                ![t].downloaded = TRUE]
    /\ UNCHANGED reply
    /\ UNCHANGED analysisVars
    /\ UNCHANGED topN

\* _process_retell_call from the download of the recording on:
\* analyze_audio_files, _persist_retell_results and the final update, or the
\* handler of the exception one of the first two raised. An exception of the
\* final update (the row is gone, or the write failed) is logged and dropped:
\* the segments are stored and the row stays as it was
ProcessFinish(t) ==
    /\ pc = "idle"
    /\ tasks[t].pc = "running"
    /\ \/ /\ call' = RecordProcessError(call)
          /\ tasks' = [tasks EXCEPT ![t].pc = "raised"]
       \/ \E outcome \in AnalysisOutcomes, update_raised \in BOOLEAN :
            LET final_updates ==
                    IF outcome.overall # None
                    THEN [analysis_status      |-> "completed",
                          analysis_available   |-> TRUE,
                          overall_emotion_json |-> outcome.overall]
                    ELSE [analysis_status      |-> "completed",
                          analysis_available   |-> TRUE]
                persisted == [call EXCEPT !.stored_results = outcome.results]
            IN /\ call' = IF ~call.exists THEN call
                          ELSE IF update_raised THEN persisted
                          ELSE update_retell_call_entry(persisted, final_updates)
               /\ tasks' = [tasks EXCEPT ![t] = ReturnedTask]
    /\ UNCHANGED reply
    /\ UNCHANGED analysisVars
    /\ UNCHANGED topN

\* The except clauses of _process_retell_call_background: the exception that
\* _process_retell_call raised again, after recording it, is recorded once
\* more, in a second transaction
ProcessRaised(t) ==
    /\ pc = "idle"
    /\ tasks[t].pc = "raised"
    /\ call' = RecordError(call)
    /\ tasks' = [tasks EXCEPT ![t] = ReturnedTask]
    /\ UNCHANGED reply
    /\ UNCHANGED analysisVars
    /\ UNCHANGED topN

NextServer ==
    \/ RetellWebhook
    \/ RefreshRetellCalls
    \/ ListRetellCalls
    \/ \E force \in BOOLEAN : AnalyzeRetellCall(force)
    \/ \E t \in DOMAIN tasks : ProcessStart(t)
    \/ \E t \in DOMAIN tasks : ProcessFinish(t)
    \/ \E t \in DOMAIN tasks : ProcessRaised(t)

SpecServer == InitServer /\ [][NextServer]_vars

\* The same server where every background task that was queued is run to its
\* end: BackgroundTasks runs the task once the response is sent, and every
\* wait in it is bounded (wait_for_job_completion gives up after
\* max_wait_time)
SpecServerFair ==
    /\ SpecServer
    /\ \A t \in 1..MaxAnalyses :
          /\ WF_vars(t \in DOMAIN tasks /\ ProcessStart(t))
          /\ WF_vars(t \in DOMAIN tasks /\ ProcessFinish(t))
          /\ WF_vars(t \in DOMAIN tasks /\ ProcessRaised(t))

\* A registered call that only analyze requests and the background analyses
\* they start touch: no webhook, refresh or listing
InitAnalyze ==
    /\ pc = "idle"
    /\ predictions = <<>>
    /\ results = <<>>
    /\ transcript = <<>>
    /\ client = "absent"
    /\ response = NotCalled
    /\ judgment = NoJudgment
    /\ llmCalls = 0
    /\ raised = FALSE
    /\ call = NewCall("pending", TRUE)
    /\ tasks = <<>>
    /\ reply = NoReply
    /\ topN = top_n

NextAnalyze ==
    \/ \E force \in BOOLEAN : AnalyzeRetellCall(force)
    \/ \E t \in DOMAIN tasks : ProcessStart(t)
    \/ \E t \in DOMAIN tasks : ProcessFinish(t)
    \/ \E t \in DOMAIN tasks : ProcessRaised(t)

SpecAnalyze == InitAnalyze /\ [][NextAnalyze]_vars

----------------------------------------------------------------------------
\* Properties of the API server (checked under SpecServer)

\* the call has a stored analysis with its judgment
HasStoredJudgment ==
    /\ call.exists
    /\ call.analysis_available
    /\ call.overall_emotion_json # None

\* the judgment stored for the call, None when there is none
StoredJudgment == IF call.exists THEN call.overall_emotion_json ELSE None

\* this step is the completion of an analysis started by a forced request
ForcedCompletion ==
    \E t \in DOMAIN tasks :
        /\ tasks[t].force
        /\ tasks[t].pc = "running"
        /\ tasks'[t].pc = "done"

\* C18: once a call has a stored analysis with its judgment, an analyze request
\* without force answers with the stored analysis and starts no analysis, and
\* only the completion of a forced re-analysis changes the stored judgment
C18_StoredJudgmentStable ==
    [][ HasStoredJudgment =>
          /\ AnalyzeRetellCall(FALSE) =>
                /\ reply'.answer = Answer(200, "results", call.stored_results,
                                          call.overall_emotion_json)
                /\ tasks' = tasks
          /\ StoredJudgment' = StoredJudgment \/ ForcedCompletion ]_vars

\* C27: in the stored call record, after any sequence of webhook
\* registrations, metadata refreshes, analysis starts, completions and
\* failures, analysis_allowed = false implies that analysis_status is
\* 'blocked' and error_message is empty
C27_DisallowedIsBlocked ==
    (call.exists /\ call.analysis_allowed = FALSE) =>
        /\ call.analysis_status = "blocked"
        /\ call.error_message = None

\* A call that was disallowed holds the results of an analysis that ran to
\* its end, and every analysis started for it is over
C27_Witness ==
    /\ call.exists
    /\ call.analysis_allowed = FALSE
    /\ call.stored_results # None
    /\ tasks # <<>>
    /\ \A t \in DOMAIN tasks : tasks[t].pc = "done"

\* C28: for a call whose constraint evaluation disallows analysis, no
\* recording is downloaded and no acoustic job is submitted: the analyze
\* endpoint, with or without force, starts no analysis for a call stored as
\* disallowed, and an analysis whose evaluation in _process_retell_call
\* disallows ends without the download and never reaches analyze_audio_files
C28_DisallowedNeverDownloaded ==
    [][ /\ \A force \in BOOLEAN :
             (call.exists /\ call.analysis_allowed = FALSE /\ AnalyzeRetellCall(force)) =>
                 /\ tasks' = tasks
                 /\ reply'.answer.code = 400
        /\ \A t \in DOMAIN tasks' :
             tasks'[t].evaluated = "disallowed" =>
                 /\ ~tasks'[t].downloaded
                 /\ tasks'[t].pc \in {"raised", "done"} ]_vars

\* A forced analysis was stopped by the evaluation before its download, and
\* the forced request that followed was refused
C28_Witness ==
    /\ \E t \in DOMAIN tasks :
          /\ tasks[t].force
          /\ tasks[t].evaluated = "disallowed"
          /\ ~tasks[t].downloaded
    /\ reply = Served("analyze", TRUE, Answer(400, "blocked", None, None))

\* the call's row says an analysis is in progress
Processing == call.exists /\ call.analysis_status = "processing"

\* the call's row says how its analysis ended
Settled == call.exists /\ call.analysis_status \in {"completed", "error", "blocked"}

\* C29: every analysis that has been started (the call's status set to
\* 'processing') eventually leaves 'processing', the call's status ending as
\* 'completed', 'error' or 'blocked', whether the external services and the
\* persisting of the results succeed or fail
C29_StartedAnalysisSettles == Processing ~> Settled

----------------------------------------------------------------------------
\* Properties of the analyze requests for one call (checked under SpecAnalyze)

\* the background analyses that were started and whose _process_retell_call
\* has neither returned nor raised yet
InProgress == {t \in DOMAIN tasks : tasks[t].pc \in {"queued", "running"}}

\* C30: for any one call, at most one background analysis is in progress at
\* a time: under any interleaving of analyze requests (forced or not) for the
\* same call, a request made while an analysis is running does not start a
\* second one
C30_OneAnalysisAtATime == Cardinality(InProgress) <= 1

----------------------------------------------------------------------------
\* Properties of the burst list (checked under SpecBurst)

\* C23: transcript enrichment leaves the burst list's length and order and
\* every burst segment's time_start and time_end unchanged: a burst with a
\* matching utterance only gains that utterance's speaker and (when the
\* utterance has one) text, as transcript_text, and a burst with no match is
\* still emitted, as it was, with no speaker or text.
C23_BurstListKept ==
    Aligned =>
    LET deduplicated == Deduplicated
    IN \A k \in DOMAIN results :
          /\ Len(results[k].burst) = Len(deduplicated[k].burst)
          /\ \A i \in DOMAIN deduplicated[k].burst :
                LET before == deduplicated[k].burst[i]
                    after == results[k].burst[i]
                    u == MatchOf(before)
                IN /\ after.time_start = before.time_start
                   /\ after.time_end = before.time_end
                   /\ IF u = 0
                      THEN /\ after = before
                           /\ after.speaker = None
                           /\ after.transcript_text = NoText
                           /\ after.text = NoText
                      ELSE after = [before EXCEPT
                                      !.speaker = transcript[u].speaker,
                                      !.transcript_text =
                                          IF TextTruthy(transcript[u].text)
                                          THEN transcript[u].text ELSE NoText]

\* Two bursts, the later one first: the first has no match and is emitted as
\* it was, the second got the speaker and text of an utterance whose range
\* differs from its own, and the list is in input order
C23_Witness ==
    /\ Aligned
    /\ LET deduplicated == Deduplicated
       IN \E k \in DOMAIN results :
             /\ Len(results[k].burst) = 2
             /\ results[k].burst[1].time_start > results[k].burst[2].time_start
             /\ MatchOf(deduplicated[k].burst[1]) = 0
             /\ results[k].burst[1].speaker = None
             /\ LET u == MatchOf(deduplicated[k].burst[2])
                IN /\ u # 0
                   /\ results[k].burst[2].speaker = transcript[u].speaker
                   /\ results[k].burst[2].transcript_text = transcript[u].text
                   /\ TextTruthy(transcript[u].text)
                   /\ results[k].burst[2].time_start # Round2(transcript[u].start)

----------------------------------------------------------------------------
\* Properties of extract_top_emotions called with a top_n (checked under
\* SpecTopN)

\* The list kept carries min(n, number of emotions) of the window's emotions,
\* each one once, in non-increasing score order, and no emotion left out has
\* a higher score than one kept
IsTopOf(kept, emotions, n) ==
    /\ Len(kept) = Min(n, Len(emotions))
    /\ \A i \in DOMAIN kept : \A j \in DOMAIN kept :
          i < j => kept[i].score >= kept[j].score
    /\ \E from \in [DOMAIN kept -> DOMAIN emotions] :
          /\ \A i \in DOMAIN kept : \A j \in DOMAIN kept : i # j => from[i] # from[j]
          /\ \A i \in DOMAIN kept :
                /\ kept[i].name = emotions[from[i]].name
                /\ kept[i].score = Round4(emotions[from[i]].score)
          /\ \A e \in DOMAIN emotions :
                (\A i \in DOMAIN kept : from[i] # e)
                => \A i \in DOMAIN kept : emotions[e].score <= emotions[from[i]].score

\* C25: every segment emitted by extract_top_emotions with top_n = N carries
\* min(N, number of emotions) emotions in non-increasing score order, these
\* being the N highest-scored emotions of its window, and its primary_category
\* is the category of the first (top-ranked) one.
C25_TopNRanked ==
    pc = "returned" =>
    \A k \in DOMAIN results : \A kind \in {"prosody", "burst"} :
       LET windows == ItemWindows(ExtractedItems[k], kind)
           segments == IF kind = "prosody" THEN results[k].prosody ELSE results[k].burst
       IN \A j \in DOMAIN segments :
             /\ \E i \in DOMAIN windows :
                   /\ TimeRangeKey(windows[i]) = RangeOf(segments[j])
                   /\ IsTopOf(segments[j].top_emotions, windows[i].emotions, topN)
             /\ segments[j].top_emotions # <<>>
             /\ segments[j].primary_category = segments[j].top_emotions[1].category
             /\ segments[j].primary_category
                   = categorize_emotion(segments[j].top_emotions[1].name)

\* Asked for three, a window of two emotions gave its two and a window of
\* four emotions, listed in another order, its three highest, the first of
\* two equal scores before the second
C25_Witness ==
    /\ pc = "returned"
    /\ topN = 3
    /\ \E k \in DOMAIN results :
          /\ Len(results[k].prosody) = 2
          /\ Len(results[k].prosody[1].top_emotions) = 2
          /\ results[k].prosody[1].top_emotions[1].name = "ANGER"
          /\ results[k].prosody[1].primary_category = "negative"
          /\ Len(results[k].prosody[2].top_emotions) = 3
          /\ results[k].prosody[2].top_emotions[1].name = "Joy"
          /\ results[k].prosody[2].top_emotions[2].name = "ANGER"
          /\ results[k].prosody[2].top_emotions[3].name = "Calmness"
          /\ results[k].prosody[2].primary_category = "positive"

====
